---------------------------- MODULE Spec2Model ----------------------------
(***************************************************************************)
(* Verification model of the dynamiqs / torchqdynamics integrators.        *)
(*                                                                         *)
(* Times are integers (a common time unit); a quantum state is abstracted  *)
(* to the record [at |-> time it is the solution at, steps |-> number of   *)
(* solver updates that produced it].  Sequences are 1-based: the source's  *)
(* index k is index k+1 here.                                              *)
(*                                                                         *)
(* Each part of the program has its own specification over the shared      *)
(* variable list; the variables of the other parts stay at their idle      *)
(* values.                                                                 *)
(***************************************************************************)
EXTENDS Integers, Sequences, FiniteSets, TLC

VARIABLES
    \* ---- torchqdynamics/odeint.py : _fixed_odeint
    tsave,          \* requested save times (strictly increasing)
    dt0,            \* qsolver.options.dt as configured
    dt,             \* local dt (overwritten by the final clip)
    t,              \* current time
    y,              \* current state
    ysave,          \* output tensor, one entry per save time
    save_counter,   \* next save index (0-based, as in the source)
    writes,         \* history: 0-based indices written, in order
    steps,          \* history: the (t, dt) of every qsolver.forward call
    pc,             \* "loop" | "done" | "IndexError" ("idle" in other specs)
    \* ---- a run of an integrator: dynamiqs/integrators/core/diffrax_integrator.py
    \*      (DiffraxIntegrator.run) or dynamiqs/solvers/solver.py (Solver)
    engine,         \* "adaptive" | "fixed" (Diffrax integrators) | "solver"
    ts,             \* self.ts / self.tsave: requested save times
    t0,             \* self.t0: start time
    discontinuity_ts, \* self.discontinuity_ts of the generator
    max_steps,      \* self.max_steps
    solver_dt,      \* self.solver.dt (fixed-step integrators)
    tprev,          \* time reached by the accepted steps
    num_steps,      \* steps made, accepted or rejected
    stops,          \* history: end points of the accepted steps
    crossed,        \* history: times strictly inside an accepted step
    yrun,           \* current state of the run
    ysaveT,         \* saved states of the run under save_states = True
    ysaveF,         \* saved states of the same run under save_states = False
    tsave_counter,  \* Solver.tsave_counter
    result,         \* the Result returned by run (NoResult before / never)
    run_pc,         \* "stepping" | "raised" | "returned" ("idle" in other specs)
    \* ---- dynamiqs/core/expm_solver.py : ExpmSolver
    H,              \* self.H, the generator (a time array)
    expm_ts,        \* self.ts: requested save times
    expm_t0,        \* self.t0: start time
    propagators,    \* the saved propagators, one per save time
    final_prop,     \* the final propagator
    expm_calls,     \* history: number of matrix exponentials computed
    expm_pc,        \* "new" | "constructed" | "TypeError" | "done"
    \* ---- a call of an entry point: dsmesolve, floquet, mesolve, smesolve
    api,            \* the entry point called
    args,           \* the arguments of the call
    api_pc,         \* position in the entry point
    error,          \* the exception raised ("none" if none)
    split_ops,      \* the jump operators and etas after the split
    trace,          \* history: the calls made by the entry point, in order
    api_result,     \* whether a result was returned to the caller
    \* ---- batching of a call: mesolve (dynamiqs and legacy),
    \*      _vectorized_dsmesolve
    b_api,          \* the function called
    b_in,           \* its arguments: batch shapes, sizes, options
    b_arrays,       \* the arguments once batched / broadcast
    b_wrappers,     \* history: the vectorizations composed, innermost first
    b_out,          \* the arrays returned to the caller
    b_pc,           \* position in the function
    \* ---- one trajectory of the diffusive SME: dsmesolve and
    \*      dynamiqs/integrators/core/diffrax_integrator.py,
    \*      DSMEDiffraxIntegrator
    d_args,         \* jump_ops, etas and tsave as checked by dsmesolve
    d_int,          \* the integrator's fields Lcs, Lms, etas (0 before)
    d_terms,        \* the operators of each term and the Wiener shape
    d_y,            \* the state (rho, Y) of the solve and its time
    d_hist,         \* history: the integrated signal Y at every time reached
    d_ys,           \* solution.ys: the three saved sub-trees
    d_out,          \* the result returned
    d_pc,           \* position in the call
    \* ---- one object and the calls made on it: a solver with its save
    \*      tensors, a time-dependent tensor, a vector field
    o_kind,         \* the class of the object
    o_in,           \* the arguments it was built or called with
    o_self,         \* the fields of the object
    o_hist,         \* history: the calls made on it, in order
    o_out,          \* what the last call returned
    o_pc            \* position in the life of the object

varsFixed == <<tsave, dt0, dt, t, y, ysave, save_counter, writes, steps, pc>>

varsRun == <<engine, ts, t0, discontinuity_ts, max_steps, solver_dt, tprev,
             num_steps, stops, crossed, yrun, ysaveT, ysaveF, tsave_counter,
             result, run_pc>>

varsExpm == <<H, expm_ts, expm_t0, propagators, final_prop, expm_calls,
              expm_pc>>

varsApi == <<api, args, api_pc, error, split_ops, trace, api_result>>

varsBatch == <<b_api, b_in, b_arrays, b_wrappers, b_out, b_pc>>

varsDsme == <<d_args, d_int, d_terms, d_y, d_hist, d_ys, d_out, d_pc>>

varsObj == <<o_kind, o_in, o_self, o_hist, o_out, o_pc>>

vars == <<varsFixed, varsRun, varsExpm, varsApi, varsBatch, varsDsme, varsObj>>

\* what each part leaves alone
notFixed == <<varsRun, varsExpm, varsApi, varsBatch, varsDsme, varsObj>>
notRun == <<varsFixed, varsExpm, varsApi, varsBatch, varsDsme, varsObj>>
notExpm == <<varsFixed, varsRun, varsApi, varsBatch, varsDsme, varsObj>>
notApi == <<varsFixed, varsRun, varsExpm, varsBatch, varsDsme, varsObj>>
notBatch == <<varsFixed, varsRun, varsExpm, varsApi, varsDsme, varsObj>>
notDsme == <<varsFixed, varsRun, varsExpm, varsApi, varsBatch, varsObj>>
notObj == <<varsFixed, varsRun, varsExpm, varsApi, varsBatch, varsDsme>>

-----------------------------------------------------------------------------
(* Bounds of the model *)

MaxT == 5
MaxDt == 3
MaxLen == 3
MaxSteps == 3       \* largest solver.max_steps tried
MaxH == 3           \* largest step proposed by the step-size controller
MaxJumps == 1       \* largest number of discontinuity times of the generator
MaxTE == 3          \* latest time of the propagator computations
MaxVal == 2         \* largest coefficient of a piecewise-constant generator
MaxOps == 2         \* largest number of jump operators / of etas
MaxBatch == 2       \* largest number of batch elements of an argument
MaxPeriod == 2      \* largest drive period T

-----------------------------------------------------------------------------
(* Generic helpers *)

Min(S) == CHOOSE m \in S : \A x \in S : m <= x

RECURSIVE SortedSeq(_)
SortedSeq(S) == IF S = {} THEN <<>>
                ELSE <<Min(S)>> \o SortedSeq(S \ {Min(S)})

Last(s) == s[Len(s)]

Range(f) == {f[k] : k \in DOMAIN f}

\* every non-empty strictly increasing sequence of times in lo..hi
IncreasingSeqs(lo, hi) ==
    { SortedSeq(S) : S \in { X \in SUBSET (lo..hi) :
                             X # {} /\ Cardinality(X) <= MaxLen } }

-----------------------------------------------------------------------------
(* Idle values: the variables of the parts a specification does not run *)

FixedIdle ==
    /\ tsave = <<>> /\ dt0 = 0 /\ dt = 0 /\ t = 0 /\ y = 0 /\ ysave = <<>>
    /\ save_counter = 0 /\ writes = <<>> /\ steps = <<>> /\ pc = "idle"

RunIdle ==
    /\ engine = "none" /\ ts = <<>> /\ t0 = 0 /\ discontinuity_ts = {}
    /\ max_steps = 0 /\ solver_dt = 0 /\ tprev = 0 /\ num_steps = 0
    /\ stops = {} /\ crossed = {} /\ yrun = 0 /\ ysaveT = <<>> /\ ysaveF = 0
    /\ tsave_counter = 0 /\ result = 0 /\ run_pc = "idle"

ExpmIdle ==
    /\ H = 0 /\ expm_ts = <<>> /\ expm_t0 = 0 /\ propagators = <<>>
    /\ final_prop = <<>> /\ expm_calls = 0 /\ expm_pc = "idle"

ApiIdle ==
    /\ api = "none" /\ args = 0 /\ api_pc = "idle" /\ error = "none"
    /\ split_ops = 0 /\ trace = <<>> /\ api_result = FALSE

BatchIdle ==
    /\ b_api = "none" /\ b_in = 0 /\ b_arrays = 0 /\ b_wrappers = <<>>
    /\ b_out = 0 /\ b_pc = "idle"

DsmeIdle ==
    /\ d_args = 0 /\ d_int = 0 /\ d_terms = 0 /\ d_y = 0 /\ d_hist = <<>>
    /\ d_ys = <<>> /\ d_out = 0 /\ d_pc = "idle"

ObjIdle ==
    /\ o_kind = "none" /\ o_in = 0 /\ o_self = 0 /\ o_hist = <<>>
    /\ o_out = 0 /\ o_pc = "idle"

-----------------------------------------------------------------------------
(* torchqdynamics/odeint.py : _fixed_odeint *)

\* torch.zeros entry: an entry of ysave that was never written
Zero == [at |-> -1, steps |-> -1]

y0 == [at |-> 0, steps |-> 0]

\* qsolver.forward(t, dt, y): one solver update over [t, t + dt]
forward(tt, h, yy) == [at |-> yy.at + h, steps |-> yy.steps + 1]

\* lines 46-57: allocation, saving of y0 when tsave[0] == 0, t, y = 0, y0
FixedInit ==
    /\ tsave \in IncreasingSeqs(0, MaxT)
    /\ dt0 \in 1..MaxDt
    /\ dt = dt0
    /\ t = 0
    /\ y = y0
    /\ ysave = IF tsave[1] = 0
               THEN [k \in 1..Len(tsave) |-> IF k = 1 THEN y0 ELSE Zero]
               ELSE [k \in 1..Len(tsave) |-> Zero]
    /\ save_counter = IF tsave[1] = 0 THEN 1 ELSE 0
    /\ writes = IF tsave[1] = 0 THEN <<0>> ELSE <<>>
    /\ steps = <<>>
    /\ pc = "loop"
    /\ RunIdle
    /\ ExpmIdle
    /\ ApiIdle
    /\ BatchIdle
    /\ DsmeIdle
    /\ ObjIdle

\* line 60-61: the clip of the last step
ClippedDt(tt, h, tlast) == IF tt + h > tlast THEN tlast - tt ELSE h

\* a save test that misses a step landing exactly on the save time
SaveDue_Strict(tt, tnext) == tt > tnext

\* a save test that passes after every step
SaveDue_Always(tt, tnext) == TRUE

\* line 68: the save test after a step
SaveDue(tt, tnext) == tt >= tnext

\* lines 58-70: one iteration of the while loop
FixedStep ==
    /\ pc = "loop"
    /\ t < Last(tsave)
    /\ LET h  == ClippedDt(t, dt, Last(tsave))
           yn == forward(t, h, y)
           tn == t + h
       IN /\ dt' = h
          /\ y' = yn
          /\ t' = tn
          /\ steps' = Append(steps, <<t, h>>)
          /\ IF save_counter >= Len(tsave)
             THEN \* tsave[save_counter] is read past the end
                  /\ pc' = "IndexError"
                  /\ UNCHANGED <<ysave, save_counter, writes>>
             ELSE IF SaveDue(tn, tsave[save_counter + 1])
             THEN /\ ysave' = [ysave EXCEPT ![save_counter + 1] = yn]
                  /\ writes' = Append(writes, save_counter)
                  /\ save_counter' = save_counter + 1
                  /\ pc' = pc
             ELSE UNCHANGED <<ysave, save_counter, writes, pc>>
    /\ UNCHANGED <<tsave, dt0, notFixed>>

\* line 58 (loop exit) and line 72: return tsave, ysave
FixedReturn ==
    /\ pc = "loop"
    /\ ~(t < Last(tsave))
    /\ pc' = "done"
    /\ UNCHANGED <<tsave, dt0, dt, t, y, ysave, save_counter, writes, steps,
                   notFixed>>

FixedNext == FixedStep \/ FixedReturn

SpecFixed == FixedInit /\ [][FixedNext]_vars


-----------------------------------------------------------------------------
(* A run of an integrator.                                                 *)
(*   engine "adaptive" / "fixed": DiffraxIntegrator.run, whose stepping is *)
(*   dx.diffeqsolve as configured by saveat, stepsize_controller, dt0 and  *)
(*   max_steps;                                                            *)
(*   engine "solver": dynamiqs/solvers/solver.py, Solver with its counter  *)
(*   based save.                                                           *)
(* The run is followed for save_states = True (ysaveT) and for             *)
(* save_states = False (ysaveF) at once: the two differ in nothing else.   *)

\* FixedStepDiffraxIntegrator.max_steps
FixedMaxSteps == 100000

\* diffrax fills the output buffers with inf before the solve
Inf == [at |-> -3, steps |-> -3]

\* a `None` ysave
NoneState == [at |-> -2, steps |-> -2]

\* no Result object
NoResult == [T |-> <<>>, F |-> NoneState, made |-> FALSE]

t1 == Last(ts)

\* self.t0: options.t0 when given (here 0), else the first save time
StartTimes(sv) == {0, sv[1]}

CeilDiv(a, b) == (a + b - 1) \div b

\* a step-size controller that was given no jump_ts
NoJumpTs == {}

\* AdaptiveStepDiffraxIntegrator.stepsize_controller: PIDController(...,
\* jump_ts=self.discontinuity_ts); no step_ts is passed
ControllerJumpTs == discontinuity_ts

\* the controller clips a proposed step end to the first jump time inside
\* the step, and diffeqsolve clips it to t1
ClipStep(from, to, tend, jumps) ==
    LET inside == {d \in jumps : from < d /\ d < to}
        c      == IF inside = {} THEN to ELSE Min(inside)
    IN IF c > tend THEN tend ELSE c

\* DiffraxIntegrator.saveat, SubSaveAt(ts=self.ts, fn=save): every pending
\* save time up to the end of an accepted step is saved from the step's
\* dense output, i.e. the solution at that very time
SavePending(ysv, upto, nsteps) ==
    [k \in 1..Len(ts) |->
        IF ysv[k] = Inf /\ ts[k] <= upto
        THEN [at |-> ts[k], steps |-> nsteps]
        ELSE ysv[k]]

\* SaveMixin.postprocess_saved
postprocess_saved(save_states, saved, ylast) ==
    IF ~save_states THEN ylast ELSE saved

\* Result.final_state
final_state(save_states, saved) ==
    IF save_states THEN saved[Len(saved)] ELSE saved

DiffraxInit ==
    /\ engine \in {"adaptive", "fixed"}
    /\ ts \in IF engine = "fixed"
              THEN IncreasingSeqs(0, MaxT)
                     \cup {<<0, FixedMaxSteps>>, <<0, FixedMaxSteps + 1>>}
              ELSE IncreasingSeqs(0, MaxT)
    /\ t0 \in StartTimes(ts)
    /\ discontinuity_ts \in
          IF engine = "fixed" THEN {{}}
          ELSE {X \in SUBSET (0..MaxT) : Cardinality(X) <= MaxJumps}
    /\ max_steps \in IF engine = "fixed" THEN {FixedMaxSteps} ELSE 1..MaxSteps
    /\ solver_dt \in IF engine = "fixed" THEN 1..MaxDt ELSE {0}
    /\ tprev = t0
    /\ num_steps = 0
    /\ stops = {}
    /\ crossed = {}
    /\ yrun = [at |-> t0, steps |-> 0]
    /\ ysaveT = [k \in 1..Len(ts) |-> Inf]
    /\ ysaveF = NoneState
    /\ tsave_counter = 0
    /\ result = NoResult
    /\ run_pc = "stepping"

\* diffeqsolve, one iteration of its loop under the adaptive controller: a
\* step is proposed, clipped, and accepted or rejected on its error estimate
AdaptiveStep ==
    /\ engine = "adaptive"
    /\ run_pc = "stepping"
    /\ tprev < t1
    /\ num_steps < max_steps
    /\ \E h \in 1..MaxH, keep \in BOOLEAN :
          LET tnext == ClipStep(tprev, tprev + h, t1, ControllerJumpTs)
          IN /\ num_steps' = num_steps + 1
             /\ IF keep
                THEN /\ tprev' = tnext
                     /\ stops' = stops \cup {tnext}
                     /\ crossed' = crossed \cup ((tprev + 1)..(tnext - 1))
                     /\ yrun' = [at |-> tnext, steps |-> yrun.steps + 1]
                     /\ ysaveT' = SavePending(ysaveT, tnext, yrun.steps + 1)
                ELSE UNCHANGED <<tprev, stops, crossed, yrun, ysaveT>>
    /\ UNCHANGED <<engine, ts, t0, discontinuity_ts, max_steps, solver_dt,
                   ysaveF, tsave_counter, result, run_pc, notRun>>

\* a run that hands back whatever was saved when max_steps is hit
AdaptiveFinish_NoThrow ==
    /\ engine = "adaptive"
    /\ run_pc = "stepping"
    /\ ~(tprev < t1 /\ num_steps < max_steps)
    /\ run_pc' = "returned"
    /\ result' = [T |-> ysaveT, F |-> yrun, made |-> TRUE]
    /\ UNCHANGED <<engine, ts, t0, discontinuity_ts, max_steps, solver_dt,
                   tprev, num_steps, stops, crossed, yrun, ysaveT, ysaveF,
                   tsave_counter, notRun>>

\* DiffraxIntegrator.run after the loop of diffeqsolve: max_steps reached
\* before t1 raises (diffeqsolve is called with its default throw), else
\* lines 92-94 build the Result
AdaptiveFinish ==
    /\ engine = "adaptive"
    /\ run_pc = "stepping"
    /\ ~(tprev < t1 /\ num_steps < max_steps)
    /\ IF tprev < t1
       THEN /\ run_pc' = "raised"
            /\ UNCHANGED <<result, ysaveT, ysaveF>>
       ELSE LET saved == SavePending(ysaveT, t1, yrun.steps)
                ylast == yrun
            IN /\ run_pc' = "returned"
               /\ ysaveT' = postprocess_saved(TRUE, saved, ylast)
               /\ ysaveF' = postprocess_saved(FALSE, ysaveF, ylast)
               /\ result' = [T |-> ysaveT', F |-> ysaveF', made |-> TRUE]
    /\ UNCHANGED <<engine, ts, t0, discontinuity_ts, max_steps, solver_dt,
                   tprev, num_steps, stops, crossed, yrun, tsave_counter,
                   notRun>>

\* DiffraxIntegrator.run of a fixed-step integrator, as a whole: constant
\* steps of solver.dt from t0, the last one clipped to t1, at most max_steps
FixedRun ==
    /\ engine = "fixed"
    /\ run_pc = "stepping"
    /\ LET n == CeilDiv(t1 - t0, solver_dt)
       IN IF n > max_steps
          THEN /\ run_pc' = "raised"
               /\ num_steps' = max_steps
               /\ tprev' = t0 + max_steps * solver_dt
               /\ yrun' = [at |-> tprev', steps |-> max_steps]
               /\ ysaveT' = SavePending(ysaveT, tprev', max_steps)
               /\ UNCHANGED <<result, ysaveF>>
          ELSE LET ylast == [at |-> t1, steps |-> n]
                   saved == [k \in 1..Len(ts) |->
                               [at |-> ts[k],
                                steps |-> CeilDiv(ts[k] - t0, solver_dt)]]
               IN /\ run_pc' = "returned"
                  /\ num_steps' = n
                  /\ tprev' = t1
                  /\ yrun' = ylast
                  /\ ysaveT' = postprocess_saved(TRUE, saved, ylast)
                  /\ ysaveF' = postprocess_saved(FALSE, ysaveF, ylast)
                  /\ result' = [T |-> ysaveT', F |-> ysaveF', made |-> TRUE]
    /\ UNCHANGED <<engine, ts, t0, discontinuity_ts, max_steps, solver_dt,
                   stops, crossed, tsave_counter, notRun>>

(* dynamiqs/solvers/solver.py : Solver *)

\* a tstop that drops the first save time whatever it is
tstop_DropFirst(sv) == SubSeq(sv, 2, Len(sv))

\* Solver.tstop: tsave excluding t = 0.0
tstop(sv) == IF sv[1] # 0 THEN sv ELSE SubSeq(sv, 2, Len(sv))

\* a _save_y whose final-state test is off by one
_save_y_OffByOne(save_states, ysv, counter, n, yy) ==
    IF save_states THEN [ysv EXCEPT ![counter + 1] = yy]
    ELSE IF counter = n THEN yy
    ELSE ysv

\* Solver._save_y: counter is tsave_counter, n is len(self.tsave)
_save_y(save_states, ysv, counter, n, yy) ==
    IF save_states THEN [ysv EXCEPT ![counter + 1] = yy]
    ELSE IF counter = n - 1 THEN yy
    ELSE ysv

\* Solver.__init__ with _init_save: the save tensors are allocated, the
\* counter is reset and the initial state is saved when tsave[0] == 0.0
SolverInit ==
    /\ engine = "solver"
    /\ ts \in IncreasingSeqs(0, MaxT)
    /\ t0 = 0
    /\ discontinuity_ts = {}
    /\ max_steps = 0
    /\ solver_dt = 0
    /\ tprev = 0
    /\ num_steps = 0
    /\ stops = {}
    /\ crossed = {}
    /\ yrun = y0
    /\ LET zerosT == [k \in 1..Len(ts) |-> Zero]
       IN IF ts[1] = 0
          THEN /\ ysaveT = _save_y(TRUE, zerosT, 0, Len(ts), y0)
               /\ ysaveF = _save_y(FALSE, NoneState, 0, Len(ts), y0)
               /\ tsave_counter = 1
          ELSE /\ ysaveT = zerosT
               /\ ysaveF = NoneState
               /\ tsave_counter = 0
    /\ result = NoResult
    /\ run_pc = "stepping"

\* the solver's run loop: integrate up to the next time of tstop(), then
\* Solver.save (_save_y, then the counter moves on)
SolverAdvance ==
    /\ engine = "solver"
    /\ run_pc = "stepping"
    /\ num_steps < Len(tstop(ts))
    /\ LET tn == tstop(ts)[num_steps + 1]
           yn == [at |-> tn, steps |-> yrun.steps + 1]
       IN /\ tprev' = tn
          /\ yrun' = yn
          /\ ysaveT' = _save_y(TRUE, ysaveT, tsave_counter, Len(ts), yn)
          /\ ysaveF' = _save_y(FALSE, ysaveF, tsave_counter, Len(ts), yn)
          /\ tsave_counter' = tsave_counter + 1
          /\ num_steps' = num_steps + 1
    /\ UNCHANGED <<engine, ts, t0, discontinuity_ts, max_steps, solver_dt,
                   stops, crossed, result, run_pc, notRun>>

\* Solver.run returns: self.result holds what was saved
SolverReturn ==
    /\ engine = "solver"
    /\ run_pc = "stepping"
    /\ num_steps = Len(tstop(ts))
    /\ run_pc' = "returned"
    /\ result' = [T |-> ysaveT, F |-> ysaveF, made |-> TRUE]
    /\ UNCHANGED <<engine, ts, t0, discontinuity_ts, max_steps, solver_dt,
                   tprev, num_steps, stops, crossed, yrun, ysaveT, ysaveF,
                   tsave_counter, notRun>>

RunInit ==
    (DiffraxInit \/ SolverInit) /\ FixedIdle /\ ExpmIdle /\ ApiIdle /\ BatchIdle
    /\ DsmeIdle
    /\ ObjIdle

RunNext ==
    \/ AdaptiveStep
    \/ AdaptiveFinish
    \/ FixedRun
    \/ SolverAdvance
    \/ SolverReturn

SpecRun == RunInit /\ [][RunNext]_vars

-----------------------------------------------------------------------------
(* dynamiqs/core/expm_solver.py : ExpmSolver                               *)
(*                                                                         *)
(* A generator is [kind, terms]; a term is a constant or piecewise         *)
(* constant multiple of its own basis operator (the basis operators of     *)
(* different terms do not commute), or a callable / modulated one.  The    *)
(* value H(t) is the tuple of the terms' coefficients at t.  A propagator  *)
(* is kept in normal form: the sequence, in time order, of the exponents   *)
(* X_1, ..., X_n of exp(-i X_n) @ ... @ exp(-i X_1), where exponents that  *)
(* commute (parallel tuples) are merged and zero exponents dropped.        *)

Abs(x) == IF x < 0 THEN -x ELSE x

RECURSIVE InsertSorted(_, _)
InsertSorted(x, s) ==
    IF s = <<>> THEN <<x>>
    ELSE IF x <= Head(s) THEN <<x>> \o s
    ELSE <<Head(s)>> \o InsertSorted(x, Tail(s))

\* jnp.sort
RECURSIVE sort(_)
sort(s) == IF s = <<>> THEN <<>> ELSE InsertSorted(Head(s), sort(Tail(s)))

ConstantTimeArray(c) ==
    [kind |-> "constant", times |-> <<>>, values |-> <<c>>]

PWCTimeArray(times, values) ==
    [kind |-> "pwc", times |-> times, values |-> values]

OtherTimeArray(k) == [kind |-> k, times |-> <<>>, values |-> <<>>]

\* a generator made of one time array
Single(L) == [kind |-> L.kind, terms |-> <<L>>]

SummedTimeArray(terms) == [kind |-> "summed", terms |-> terms]

\* the value of one time array at time tt
LeafValue(L, tt) ==
    CASE L.kind = "constant" -> L.values[1]
      [] L.kind = "pwc" ->
            LET idx == {i \in 1..Len(L.values) :
                          L.times[i] <= tt /\ tt < L.times[i + 1]}
            IN IF idx = {} THEN 0 ELSE L.values[CHOOSE i \in idx : TRUE]
      [] OTHER -> tt + 1

\* self.H(t)
HAt(tt) == [j \in 1..Len(H.terms) |-> LeafValue(H.terms[j], tt)]

\* H.discontinuity_ts of a sum: the union of the terms' breakpoints, sorted
SummedDiscontinuityTs ==
    SortedSeq(UNION {Range(H.terms[j].times) : j \in 1..Len(H.terms)})

IsZero(X) == \A j \in DOMAIN X : X[j] = 0

Parallel(X, Y) == \A i, j \in DOMAIN X : X[i] * Y[j] = X[j] * Y[i]

\* exp(-i X) applied after the propagator P
Push(P, X) ==
    IF IsZero(X) THEN P
    ELSE IF P # <<>> /\ Parallel(Last(P), X)
    THEN LET sum == [j \in DOMAIN X |-> Last(P)[j] + X[j]]
             front == SubSeq(P, 1, Len(P) - 1)
         IN IF IsZero(sum) THEN front ELSE Append(front, sum)
    ELSE Append(P, X)

\* A @ B: B acts first
RECURSIVE MatMul(_, _)
MatMul(A, B) == IF A = <<>> THEN B
                ELSE MatMul(Tail(A), Push(B, Head(A)))

eye == <<>>

\* expm(-1j * X)
expm(X) == Push(eye, X)

\* a scan step that multiplies on the wrong side
_reduce_Swapped(prev_prop, next_prop) == MatMul(prev_prop, next_prop)

\* lines 68-72
_reduce(prev_prop, next_prop) == MatMul(next_prop, prev_prop)

\* jax.lax.scan(_reduce, eye, step_propagators): entry i of the output
RECURSIVE ScanReduce(_, _)
ScanReduce(sp, i) ==
    IF i = 0 THEN eye ELSE _reduce(ScanReduce(sp, i - 1), sp[i])

\* lines 39-57
ExpmTimes ==
    IF H.kind = "constant" THEN <<expm_t0>> \o expm_ts
    ELSE IF H.kind = "pwc"
    THEN sort(<<expm_t0>> \o H.terms[1].times \o expm_ts)
    ELSE sort(<<expm_t0>> \o SummedDiscontinuityTs \o expm_ts)

\* lines 58-60
ExpmTDiffs(times) ==
    [i \in 1..(Len(times) - 1) |->
        IF times[i] < expm_t0 THEN 0 ELSE times[i + 1] - times[i]]

\* lines 63-66
StepPropagators(times) ==
    [i \in 1..(Len(times) - 1) |->
        expm([j \in 1..Len(H.terms) |-> ExpmTDiffs(times)[i] * HAt(times[i])[j]])]

\* jnp.argmin(jnp.abs(times - v)): the first index (0-based) of a closest time
ArgMin(times, v) ==
    Min({j \in 1..Len(times) :
           \A i \in 1..Len(times) : Abs(times[j] - v) <= Abs(times[i] - v)}) - 1

\* lines 82-83
TIdx(times, v) ==
    LET i == ArgMin(times, v) IN IF i > 0 THEN i - 1 ELSE i

\* lines 75-84
ExpmPropagators ==
    LET times == ExpmTimes
        sp    == StepPropagators(times)
    IN [k \in 1..Len(expm_ts) |-> ScanReduce(sp, TIdx(times, expm_ts[k]) + 1)]

\* a check that looks at the kind of H only, not at the terms of a sum
constant_or_pwc_check_TopOnly == H.kind \in {"constant", "pwc", "summed"}

\* lines 21-29
constant_or_pwc_check ==
    IF H.kind \in {"constant", "pwc"} THEN TRUE
    ELSE IF H.kind = "summed"
    THEN \A j \in 1..Len(H.terms) : H.terms[j].kind \in {"constant", "pwc"}
    ELSE FALSE

\* the breakpoints of a piecewise-constant array: 2 or 3 increasing times
PWCTimes == {s \in IncreasingSeqs(0, MaxTE) : Len(s) \in {2, 3}}

PWCValues == UNION {[1..n -> 1..MaxVal] : n \in 1..(MaxLen - 1)}

PWCs == {L \in {PWCTimeArray(tm, vals) : tm \in PWCTimes, vals \in PWCValues} :
           Len(L.values) = Len(L.times) - 1}

\* terms of the sums tried: unit coefficients
SumTerms ==
    {ConstantTimeArray(1)}
    \cup {L \in PWCs : \A i \in DOMAIN L.values : L.values[i] = 1}

\* constant, piecewise constant, and sums of such
SupportedGenerators ==
    {Single(ConstantTimeArray(c)) : c \in 1..MaxVal}
    \cup {Single(L) : L \in PWCs}
    \cup {SummedTimeArray(<<A, B>>) : A \in SumTerms, B \in SumTerms \cap PWCs}

\* callable, modulated, and sums with such a term
UnsupportedGenerators ==
    {Single(OtherTimeArray("callable")), Single(OtherTimeArray("modulated")),
     SummedTimeArray(<<ConstantTimeArray(1), OtherTimeArray("callable")>>),
     SummedTimeArray(<<OtherTimeArray("modulated"), ConstantTimeArray(1)>>)}

Generators == SupportedGenerators \cup UnsupportedGenerators

\* the arguments handed to ExpmSolver(...)
ExpmInit ==
    /\ H \in Generators
    /\ expm_ts \in IncreasingSeqs(0, MaxTE)
    /\ expm_t0 \in 0..MaxTE
    /\ propagators = <<>>
    /\ final_prop = <<>>
    /\ expm_calls = 0
    /\ expm_pc = "new"
    /\ FixedIdle
    /\ RunIdle
    /\ ApiIdle
    /\ BatchIdle
    /\ DsmeIdle
    /\ ObjIdle

\* ExpmSolver.__init__
ExpmConstruct ==
    /\ expm_pc = "new"
    /\ expm_pc' = IF ~constant_or_pwc_check THEN "TypeError" ELSE "constructed"
    /\ UNCHANGED <<H, expm_ts, expm_t0, propagators, final_prop, expm_calls,
                   notExpm>>

\* ExpmSolver.run
ExpmRun ==
    /\ expm_pc = "constructed"
    /\ propagators' = ExpmPropagators
    /\ final_prop' = Last(propagators')
    /\ expm_calls' = expm_calls + Len(ExpmTimes) - 1
    /\ expm_pc' = "done"
    /\ UNCHANGED <<H, expm_ts, expm_t0, notExpm>>

ExpmNext == ExpmConstruct \/ ExpmRun

SpecExpm == ExpmInit /\ [][ExpmNext]_vars

\* the propagator from time a to time b >= a, one unit interval after another
RECURSIVE TruePropagator(_, _)
TruePropagator(a, b) ==
    IF b <= a THEN eye ELSE Push(TruePropagator(a, b - 1), HAt(b - 1))

-----------------------------------------------------------------------------
(* Entry points                                                            *)
(*   dynamiqs/integrators/apis/dsmesolve.py : dsmesolve                    *)
(*   dynamiqs/integrators/apis/floquet.py   : floquet                      *)
(*   dynamiqs/mesolve/mesolve.py            : mesolve                      *)
(*   dynamiqs/smesolve/smesolve.py          : smesolve                     *)
(*   torchqdynamics/mesolve.py              : mesolve (legacy)             *)
(*                                                                         *)
(* An efficiency eta is an integer number of halves: EtaOne stands for 1.  *)
(* The outcome of the helpers that are called but defined elsewhere        *)
(* (check_shape, check_times, get_integrator_class,                        *)
(* assert_supports_gradient) is an input of the call; when they reject,    *)
(* the exception is recorded as "UsageError".                              *)

EtaOne == 2

EtaValues == -1..(EtaOne + 1)

EtaVectors == UNION {[1..n -> EtaValues] : n \in 0..MaxOps}

\* a jump_ops argument: a list of n operators, or something that is no list
JumpOpsArgs == {[islist |-> TRUE, n |-> n] : n \in 0..MaxOps}
               \cup {[islist |-> FALSE, n |-> 1]}

DefaultArgs ==
    [solver |-> "none", options |-> "none", gradient_ok |-> TRUE,
     shapes_ok |-> TRUE, tsave_ok |-> TRUE,
     span |-> 0, T |-> <<1>>, H_0 |-> <<0>>, H_T |-> <<0>>,
     jump_ops |-> [islist |-> TRUE, n |-> 1], exp_ops |-> "None",
     etas |-> <<>>]

NoSplit == [dissipative |-> -1, measured |-> -1, etas |-> <<>>]

Count(e) == Cardinality({i \in DOMAIN trace : trace[i] = e})

\* the calls are made in order; the last one raises err unless err = "none"
Proceed(calls, err, next_pc) ==
    /\ trace' = trace \o calls
    /\ error' = err
    /\ api_pc' = IF err = "none" THEN next_pc ELSE "raised"

ApiCall(name, A) ==
    /\ api = name
    /\ args \in A
    /\ api_pc = "called"
    /\ error = "none"
    /\ split_ops = NoSplit
    /\ trace = <<>>
    /\ api_result = FALSE

\* an etas check with the range test left out
_check_etas_NoRange(etas, n) ==
    IF Len(etas) # n THEN "ValueError"
    ELSE IF \A i \in DOMAIN etas : etas[i] = 0 THEN "ValueError"
    ELSE "none"

\* _check_dsmesolve_args, lines 336-352; smesolve, lines 74-85
_check_etas(etas, n) ==
    IF Len(etas) # n THEN "ValueError"
    ELSE IF \A i \in DOMAIN etas : etas[i] = 0 THEN "ValueError"
    ELSE IF ~((\A i \in DOMAIN etas : etas[i] >= 0)
              /\ (\A i \in DOMAIN etas : etas[i] <= EtaOne)) THEN "ValueError"
    ELSE "none"

\* _check_dsmesolve_args
_check_dsmesolve_args(a) ==
    IF ~a.shapes_ok THEN "UsageError"
    ELSE _check_etas(a.etas, a.jump_ops.n)

IsNonZero(eta) == eta # 0

\* dsmesolve lines 170-174, smesolve lines 88-89
Split(a) ==
    [dissipative |-> Cardinality({i \in DOMAIN a.etas : a.etas[i] = 0}),
     measured    |-> Cardinality({i \in DOMAIN a.etas : a.etas[i] # 0}),
     etas        |-> SelectSeq(a.etas, IsNonZero)]

DsmesolveArgs ==
    {[DefaultArgs EXCEPT !.solver = s, !.gradient_ok = g, !.shapes_ok = sh,
                         !.tsave_ok = tv, !.jump_ops = [islist |-> TRUE, n |-> n],
                         !.etas = e] :
        s \in {"EulerMaruyama", "Tsit5"}, g \in BOOLEAN, sh \in BOOLEAN,
        tv \in BOOLEAN, n \in 0..MaxOps, e \in EtaVectors}

\* dsmesolve lines 153-165: conversions, _check_dsmesolve_args, check_times
DsmesolveCheck ==
    /\ api = "dsmesolve" /\ api_pc = "called"
    /\ LET e == _check_dsmesolve_args(args)
       IN Proceed(<<"check">>,
                  IF e # "none" THEN e
                  ELSE IF ~args.tsave_ok THEN "UsageError" ELSE "none",
                  "checked")
    /\ UNCHANGED <<api, args, split_ops, api_result, notApi>>

\* dsmesolve lines 167-174
DsmesolveSplit ==
    /\ api = "dsmesolve" /\ api_pc = "checked"
    /\ split_ops' = Split(args)
    /\ Proceed(<<"split">>, "none", "split")
    /\ UNCHANGED <<api, args, api_result, notApi>>

\* _dsmesolve_single_trajectory lines 284-289
DsmesolveAssert ==
    /\ api = "dsmesolve" /\ api_pc = "split"
    /\ IF args.solver # "EulerMaruyama"
       THEN Proceed(<<"get_integrator_class">>, "UsageError", "asserted")
       ELSE Proceed(<<"get_integrator_class", "assert_supports_gradient">>,
                    IF args.gradient_ok THEN "none" ELSE "UsageError",
                    "asserted")
    /\ UNCHANGED <<api, args, split_ops, api_result, notApi>>

\* an argument with one value per batch element
Batched(V) == UNION {[1..b -> V] : b \in 1..MaxBatch}

\* span is tsave[-1] - tsave[0]; T, H(0) and H(T) have one value per batch
\* element (T is broadcast to the batch shape of H, lines 80-82)
FloquetArgs ==
    {a \in {[DefaultArgs EXCEPT !.solver = "Tsit5", !.gradient_ok = g,
                                !.shapes_ok = sh, !.tsave_ok = tv,
                                !.span = sp, !.T = T, !.H_0 = h0, !.H_T = hT] :
                g \in BOOLEAN, sh \in BOOLEAN, tv \in BOOLEAN,
                sp \in 0..(MaxPeriod + 1), T \in Batched(1..MaxPeriod),
                h0 \in Batched({0, 1}), hT \in Batched({0, 1})} :
        Len(a.H_0) = Len(a.T) /\ Len(a.H_T) = Len(a.T)}

\* a window check that also rejects a window equal to the period
_check_floquet_args_Strict(a) ==
    IF ~a.shapes_ok THEN "UsageError"
    ELSE IF \E e \in DOMAIN a.T : a.span >= a.T[e] THEN "RuntimeError"
    ELSE IF \E e \in DOMAIN a.T : a.H_0[e] # a.H_T[e] THEN "RuntimeError"
    ELSE "none"

\* _check_floquet_args lines 139-158: check_shape, then the two eqx.error_if,
\* which raise when the condition holds for any batch element
_check_floquet_args(a) ==
    IF ~a.shapes_ok THEN "UsageError"
    ELSE IF \E e \in DOMAIN a.T : a.span > a.T[e] THEN "RuntimeError"
    ELSE IF \E e \in DOMAIN a.T : a.H_0[e] # a.H_T[e] THEN "RuntimeError"
    ELSE "none"

\* floquet lines 73-87: check_times, _check_floquet_args
FloquetCheck ==
    /\ api = "floquet" /\ api_pc = "called"
    /\ Proceed(<<"check">>,
               IF ~args.tsave_ok THEN "UsageError"
               ELSE _check_floquet_args(args),
               "checked")
    /\ UNCHANGED <<api, args, split_ops, api_result, notApi>>

\* _floquet lines 124-125
FloquetAssert ==
    /\ api = "floquet" /\ api_pc = "checked"
    /\ Proceed(<<"assert_supports_gradient">>,
               IF args.gradient_ok THEN "none" ELSE "UsageError", "asserted")
    /\ UNCHANGED <<api, args, split_ops, api_result, notApi>>

\* _dsmesolve_single_trajectory lines 292-304, _floquet lines 128-130
IntegratorConstruct ==
    /\ api \in {"dsmesolve", "floquet"} /\ api_pc = "asserted"
    /\ Proceed(<<"construct">>, "none", "constructed")
    /\ UNCHANGED <<api, args, split_ops, api_result, notApi>>

\* _dsmesolve_single_trajectory lines 307-310, _floquet lines 133-136
IntegratorRun ==
    /\ api \in {"dsmesolve", "floquet"} /\ api_pc = "constructed"
    /\ Proceed(<<"run">>, "none", "returned")
    /\ api_result' = TRUE
    /\ UNCHANGED <<api, args, split_ops, notApi>>

SolverNames == {"dopri5", "euler", "rouchon", "rouchon1", "rouchon2"}

\* a jump_ops check that lets the empty list through
mesolve_checks_NoEmpty(a) ==
    IF a.solver \notin SolverNames THEN "ValueError"
    ELSE IF ~a.jump_ops.islist THEN "TypeError"
    ELSE IF a.exp_ops \notin {"None", "list"} THEN "TypeError"
    ELSE "none"

\* mesolve lines 142-176: the solver names, the checks of jump_ops and exp_ops
mesolve_checks(a) ==
    IF a.solver \notin SolverNames THEN "ValueError"
    ELSE IF ~a.jump_ops.islist THEN "TypeError"
    ELSE IF a.jump_ops.n = 0 THEN "ValueError"
    ELSE IF a.exp_ops \notin {"None", "list"} THEN "TypeError"
    ELSE "none"

MesolveArgs ==
    {[DefaultArgs EXCEPT !.solver = s, !.jump_ops = j, !.exp_ops = x,
                         !.tsave_ok = tv] :
        s \in SolverNames \cup {"rk4"}, j \in JumpOpsArgs,
        x \in {"None", "list", "tensor"}, tv \in BOOLEAN}

\* mesolve lines 142-194: options, checks, formatting, check_time_tensor
MesolveCheck ==
    /\ api = "mesolve" /\ api_pc = "called"
    /\ LET e == mesolve_checks(args)
       IN Proceed(<<"check">>,
                  IF e # "none" THEN e
                  ELSE IF ~args.tsave_ok THEN "UsageError" ELSE "none",
                  "checked")
    /\ UNCHANGED <<api, args, split_ops, api_result, notApi>>

\* mesolve lines 197-198
MesolveConstruct ==
    /\ api = "mesolve" /\ api_pc = "checked"
    /\ Proceed(<<"construct">>, "none", "constructed")
    /\ UNCHANGED <<api, args, split_ops, api_result, notApi>>

\* mesolve lines 201-209, smesolve lines 116-126
SolverRun ==
    /\ api \in {"mesolve", "smesolve"} /\ api_pc = "constructed"
    /\ Proceed(<<"run">>, "none", "returned")
    /\ api_result' = TRUE
    /\ UNCHANGED <<api, args, split_ops, notApi>>

SmesolveArgs ==
    {[DefaultArgs EXCEPT !.options = o, !.jump_ops = j, !.exp_ops = x,
                         !.tsave_ok = tv, !.etas = e] :
        o \in {"None", "Euler", "Rouchon1"}, j \in JumpOpsArgs,
        x \in {"None", "list", "tensor"}, tv \in BOOLEAN, e \in EtaVectors}

\* smesolve lines 33-85: options, jump_ops, exp_ops, t_save, etas
SmesolveCheck ==
    /\ api = "smesolve" /\ api_pc = "called"
    /\ Proceed(<<"check">>,
               IF args.options = "None" THEN "ValueError"
               ELSE IF ~args.jump_ops.islist THEN "TypeError"
               ELSE IF args.jump_ops.n = 0 THEN "ValueError"
               ELSE IF args.exp_ops \notin {"None", "list"} THEN "TypeError"
               ELSE IF ~args.tsave_ok THEN "UsageError"
               ELSE _check_etas(args.etas, args.jump_ops.n),
               "checked")
    /\ UNCHANGED <<api, args, split_ops, api_result, notApi>>

\* smesolve lines 87-89
SmesolveSplit ==
    /\ api = "smesolve" /\ api_pc = "checked"
    /\ split_ops' = Split(args)
    /\ Proceed(<<"split">>, "none", "split")
    /\ UNCHANGED <<api, args, api_result, notApi>>

\* smesolve lines 91-113
SmesolveDefine ==
    /\ api = "smesolve" /\ api_pc = "split"
    /\ IF args.options = "Euler"
       THEN Proceed(<<"construct">>, "none", "constructed")
       ELSE Proceed(<<>>, "ValueError", "constructed")
    /\ UNCHANGED <<api, args, split_ops, api_result, notApi>>

LegacyArgs ==
    {[DefaultArgs EXCEPT !.solver = s, !.jump_ops = [islist |-> TRUE, n |-> n],
                         !.exp_ops = x] :
        s \in {"None", "Rouchon1", "Rouchon1_5", "Rouchon2", "Rouchon3",
               "Euler"},
        n \in 0..MaxOps, x \in {"None", "list"}}

\* a legacy check that lets the empty list through
LegacyMesolveCheck_NoEmpty ==
    /\ api = "legacy_mesolve" /\ api_pc = "called"
    /\ Proceed(<<"check">>, "none", "checked")
    /\ UNCHANGED <<api, args, split_ops, api_result, notApi>>

\* torchqdynamics mesolve lines 82-86
LegacyMesolveCheck ==
    /\ api = "legacy_mesolve" /\ api_pc = "called"
    /\ Proceed(<<"check">>,
               IF args.jump_ops.n = 0 THEN "ValueError" ELSE "none", "checked")
    /\ UNCHANGED <<api, args, split_ops, api_result, notApi>>

\* torchqdynamics mesolve lines 98-111: the solver defaults to Rouchon(dt),
\* of order 1; a Rouchon solver of another order leaves qsolver unbound
LegacyMesolveDefine ==
    /\ api = "legacy_mesolve" /\ api_pc = "checked"
    /\ IF args.solver \in {"None", "Rouchon1", "Rouchon1_5", "Rouchon2"}
       THEN Proceed(<<"construct">>, "none", "constructed")
       ELSE IF args.solver = "Rouchon3"
       THEN Proceed(<<>>, "UnboundLocalError", "constructed")
       ELSE Proceed(<<>>, "NotImplementedError", "constructed")
    /\ UNCHANGED <<api, args, split_ops, api_result, notApi>>

\* torchqdynamics mesolve lines 114-127
LegacyMesolveRun ==
    /\ api = "legacy_mesolve" /\ api_pc = "constructed"
    /\ Proceed(<<"run">>, "none", "returned")
    /\ api_result' = TRUE
    /\ UNCHANGED <<api, args, split_ops, notApi>>

ApiInit ==
    /\ \/ ApiCall("dsmesolve", DsmesolveArgs)
       \/ ApiCall("floquet", FloquetArgs)
       \/ ApiCall("mesolve", MesolveArgs)
       \/ ApiCall("smesolve", SmesolveArgs)
       \/ ApiCall("legacy_mesolve", LegacyArgs)
    /\ FixedIdle
    /\ RunIdle
    /\ ExpmIdle
    /\ BatchIdle
    /\ DsmeIdle
    /\ ObjIdle

ApiNext ==
    \/ DsmesolveCheck \/ DsmesolveSplit \/ DsmesolveAssert
    \/ FloquetCheck \/ FloquetAssert
    \/ IntegratorConstruct \/ IntegratorRun
    \/ MesolveCheck \/ MesolveConstruct \/ SolverRun
    \/ SmesolveCheck \/ SmesolveSplit \/ SmesolveDefine
    \/ LegacyMesolveCheck \/ LegacyMesolveDefine \/ LegacyMesolveRun

SpecApi == ApiInit /\ [][ApiNext]_vars

\* construction of an ExpmSolver, or a call of an entry point
SpecCalls == (ExpmInit \/ ApiInit) /\ [][ExpmNext \/ ApiNext]_vars

-----------------------------------------------------------------------------
(* torchqdynamics/odeint.py : odeint, check_tsave                          *)
(*                                                                         *)
(* The tsave argument is [kind, ndim, values]: a torch tensor, a list of   *)
(* numbers or a numpy array, with its number of dimensions and its entries *)
(* (in order, flattened).  A Python value is a pair <<type, value>>.       *)

\* the names bound in the module: lines 1-5 and the functions it defines
ModuleNames ==
    {"warnings", "torch", "AdaptativeStep", "FixedStep", "odeint",
     "odeint_main", "odeint_inplace", "odeint_adjoint", "_adaptive_odeint",
     "_fixed_odeint", "check_tsave"}

TsaveValues == UNION {[1..n -> 0..MaxT] : n \in 0..MaxLen}

\* a 0-d tensor holds one number
TsaveArgs ==
    {x \in [kind : {"tensor", "list", "ndarray"}, ndim : 0..2,
            values : TsaveValues] : x.ndim = 0 => Len(x.values) = 1}

\* tsave.dim: the attribute, a bound method (it is not called)
dim(x) == <<"method", "dim">>

\* torch.all(torch.diff(tsave) > 0)
diff_positive(v) == \A i \in 1..(Len(v) - 1) : v[i + 1] - v[i] > 0

\* lines 77-86, once the names of line 77 are resolved: the exception raised,
\* or "none"
check_tsave_body(x) ==
    IF x.kind \in {"list", "ndarray"} THEN "TypeError"   \* torch.cat of numbers
    ELSE IF dim(x) # <<"int", 1>> \/ Len(x.values) = 0 THEN "ValueError"
    ELSE IF ~diff_positive(x.values) THEN "ValueError"
    ELSE "none"

\* check_tsave, lines 75-86: line 77 evaluates np.ndarray
check_tsave(x) ==
    IF "np" \notin ModuleNames THEN "NameError" ELSE check_tsave_body(x)

\* a call odeint(qsolver, y0, tsave)
OdeintInit ==
    /\ tsave \in TsaveArgs
    /\ pc = "odeint"
    /\ dt0 = 0 /\ dt = 0 /\ t = 0 /\ y = 0 /\ ysave = <<>>
    /\ save_counter = 0 /\ writes = <<>> /\ steps = <<>>
    /\ RunIdle
    /\ ExpmIdle
    /\ ApiIdle
    /\ BatchIdle
    /\ DsmeIdle
    /\ ObjIdle

\* odeint line 10: tsave = check_tsave(tsave)
OdeintCheck ==
    /\ pc = "odeint"
    /\ pc' = IF check_tsave(tsave) = "none" THEN "checked"
             ELSE check_tsave(tsave)
    /\ UNCHANGED <<tsave, dt0, dt, t, y, ysave, save_counter, writes, steps,
                   notFixed>>

OdeintNext == OdeintCheck

SpecOdeint == OdeintInit /\ [][OdeintNext]_vars

-----------------------------------------------------------------------------
(* Batching of H and of the initial state                                  *)
(*   dynamiqs/mesolve/mesolve.py : mesolve, lines 178-209                  *)
(*   dynamiqs/solvers/solver.py  : Solver.__init__, lines 45-67            *)
(*   torchqdynamics/mesolve.py   : mesolve, lines 82-127                   *)
(*                                                                         *)
(* An array is the sequence of its axes, each [ax |-> what the index along *)
(* the axis selects, n |-> size]: "H" and "y0" are the batch axes given by *)
(* the caller, "internal" an axis added by the program, "t" the save       *)
(* times, "E" the observables, "m" and "n" the rows and columns of a       *)
(* state.  A batch shape is <<>> (unbatched) or a sequence of sizes.       *)

Ax(label, size) == [ax |-> label, n |-> size]

\* None, where an array may be absent
NoArray == <<Ax("None", 0)>>

\* the axes of a caller's batch shape
BatchAxes(label, shape) == [i \in 1..Len(shape) |-> Ax(label, shape[i])]

\* x[None, ...]
unsqueeze0(a) == <<Ax("internal", 1)>> \o a

\* torch squeeze(d), d counted from 0: removes axis d when its size is 1
squeeze(a, d) ==
    IF a[d + 1].n = 1
    THEN SubSeq(a, 1, d) \o SubSeq(a, d + 2, Len(a))
    ELSE a

StateAxes(in) == <<Ax("m", in.n), Ax("n", in.n)>>

\* mesolve line 185 and the comment of lines 179-180: H of shape (b_H, 1, n, n)
batch_H(in) ==
    (IF in.H = <<>> THEN <<Ax("internal", 1)>> ELSE BatchAxes("H", in.H))
    \o <<Ax("internal", 1)>> \o StateAxes(in)

\* mesolve line 186 and the comment of line 181: rho0 of shape
\* (b_H, b_rho0, n, n)
batch_y0(in, Hb) ==
    <<Hb[1]>>
    \o (IF in.y0 = <<>> THEN <<Ax("internal", 1)>> ELSE BatchAxes("y0", in.y0))
    \o StateAxes(in)

\* Solver.__init__ lines 45-53, _save_y lines 96-101: the saved states
SolverYSave(in, y0b) ==
    SubSeq(y0b, 1, Len(y0b) - 2)
    \o (IF in.save_states THEN <<Ax("t", in.ntsave)>> ELSE <<>>)
    \o StateAxes(in)

\* Solver.__init__ lines 55-65: the saved expectation values
SolverExpSave(in, y0b) ==
    IF in.nE > 0
    THEN SubSeq(y0b, 1, Len(y0b) - 2) \o <<Ax("E", in.nE), Ax("t", in.ntsave)>>
    ELSE NoArray

\* H and the initial state: unbatched, or one batch axis given by the caller
MesolveBatchArgs ==
    [H : {<<>>} \cup {<<k>> : k \in 1..MaxBatch},
     y0 : {<<>>} \cup {<<k>> : k \in 1..MaxBatch},
     ntsave : 1..MaxBatch, nE : 0..MaxBatch, n : 1..MaxBatch,
     save_states : BOOLEAN, cartesian : {TRUE}, nkeys : {0}]

BatchCall(name, A) ==
    /\ b_api = name
    /\ b_in \in A
    /\ b_arrays = [H |-> <<>>, y0 |-> <<>>]
    /\ b_wrappers = <<>>
    /\ b_out = [y_save |-> NoArray, exp_save |-> NoArray]
    /\ b_pc = "called"

\* mesolve lines 184-190
MesolveBatch ==
    /\ b_api = "mesolve" /\ b_pc = "called"
    /\ b_arrays' = [H |-> batch_H(b_in),
                    y0 |-> batch_y0(b_in, batch_H(b_in))]
    /\ b_pc' = "batched"
    /\ UNCHANGED <<b_api, b_in, b_wrappers, b_out, notBatch>>

\* mesolve lines 197-204: the solver is constructed and run
MesolveSolve ==
    /\ b_api = "mesolve" /\ b_pc = "batched"
    /\ b_out' = [y_save |-> SolverYSave(b_in, b_arrays.y0),
                 exp_save |-> SolverExpSave(b_in, b_arrays.y0)]
    /\ b_pc' = "solved"
    /\ UNCHANGED <<b_api, b_in, b_arrays, b_wrappers, notBatch>>

\* mesolve lines 205-209
MesolveAssemble ==
    /\ b_api = "mesolve" /\ b_pc = "solved"
    /\ b_out' = [y_save |-> squeeze(squeeze(b_out.y_save, 1), 0),
                 exp_save |-> IF b_out.exp_save # NoArray
                              THEN squeeze(squeeze(b_out.exp_save, 1), 0)
                              ELSE NoArray]
    /\ b_pc' = "returned"
    /\ UNCHANGED <<b_api, b_in, b_arrays, b_wrappers, notBatch>>

\* legacy mesolve lines 82-92
LegacyBatch ==
    /\ b_api = "legacy_mesolve" /\ b_pc = "called"
    /\ LET H_batched == IF Len(b_in.H) = 0
                        THEN unsqueeze0(StateAxes(b_in))
                        ELSE BatchAxes("H", b_in.H) \o StateAxes(b_in)
           rho0_batched == IF Len(b_in.y0) = 0
                           THEN unsqueeze0(StateAxes(b_in))
                           ELSE BatchAxes("y0", b_in.y0) \o StateAxes(b_in)
       IN b_arrays' = [H |-> H_batched,
                       y0 |-> <<H_batched[1]>> \o rho0_batched]
    /\ b_pc' = "batched"
    /\ UNCHANGED <<b_api, b_in, b_wrappers, b_out, notBatch>>

\* legacy mesolve lines 114-117, shapes as in the docstring, lines 72-78
LegacyOdeint ==
    /\ b_api = "legacy_mesolve" /\ b_pc = "batched"
    /\ b_out' = [y_save |-> SolverYSave(b_in, b_arrays.y0),
                 exp_save |-> SubSeq(b_arrays.y0, 1, 2)
                              \o <<Ax("E", b_in.nE), Ax("t", b_in.ntsave)>>]
    /\ b_pc' = "solved"
    /\ UNCHANGED <<b_api, b_in, b_arrays, b_wrappers, notBatch>>

\* legacy mesolve lines 119-127
LegacyAssemble ==
    /\ b_api = "legacy_mesolve" /\ b_pc = "solved"
    /\ LET sq1(a) == IF Len(b_in.y0) = 0 THEN squeeze(a, 1) ELSE a
           sq0(a) == IF Len(b_in.H) = 0 THEN squeeze(a, 0) ELSE a
       IN b_out' = [y_save |-> sq0(sq1(b_out.y_save)),
                    exp_save |-> sq0(sq1(b_out.exp_save))]
    /\ b_pc' = "returned"
    /\ UNCHANGED <<b_api, b_in, b_arrays, b_wrappers, notBatch>>

BatchInit ==
    /\ \/ BatchCall("mesolve", MesolveBatchArgs)
       \/ BatchCall("legacy_mesolve", MesolveBatchArgs)
    /\ FixedIdle
    /\ RunIdle
    /\ ExpmIdle
    /\ ApiIdle
    /\ DsmeIdle
    /\ ObjIdle

BatchNext ==
    \/ MesolveBatch \/ MesolveSolve \/ MesolveAssemble
    \/ LegacyBatch \/ LegacyOdeint \/ LegacyAssemble

SpecBatch == BatchInit /\ [][BatchNext]_vars

\* ---- dynamiqs/integrators/apis/dsmesolve.py : _vectorized_dsmesolve

Max(a, b) == IF a >= b THEN a ELSE b

\* a shape padded on the left with ones up to length n
PadLeft(shape, n) == [i \in 1..(n - Len(shape)) |-> 1] \o shape

\* jnp.broadcast_shapes(a, b): the common shape, or <<0>> when it raises
broadcast_shapes(a, b) ==
    LET n  == Max(Len(a), Len(b))
        pa == PadLeft(a, n)
        pb == PadLeft(b, n)
    IN IF \A i \in 1..n : pa[i] = pb[i] \/ pa[i] = 1 \/ pb[i] = 1
       THEN [i \in 1..n |-> Max(pa[i], pb[i])]
       ELSE <<0>>

BatchShapes == UNION {[1..d -> 1..MaxBatch] : d \in 0..2}

DsmeBatchArgs ==
    [H : BatchShapes, y0 : BatchShapes, ntsave : 1..MaxBatch, nE : {0, 1},
     n : {2}, save_states : {TRUE}, cartesian : BOOLEAN,
     nkeys : 1..MaxBatch]

\* lines 209-216: jax.vmap over the key argument, outputs stacked on axis 0
DsmeVmapKeys ==
    /\ b_api = "dsmesolve" /\ b_pc = "called"
    /\ b_wrappers' = Append(b_wrappers, "keys")
    /\ b_pc' = "keyed"
    /\ UNCHANGED <<b_api, b_in, b_arrays, b_out, notBatch>>

\* lines 226-233
DsmeBroadcast ==
    /\ b_api = "dsmesolve" /\ b_pc = "keyed"
    /\ IF ~b_in.cartesian
       THEN LET broadcast_shape == broadcast_shapes(b_in.H, b_in.y0)
            IN IF broadcast_shape = <<0>>
               THEN b_pc' = "ValueError" /\ UNCHANGED b_arrays
               ELSE /\ b_arrays' = [H  |-> BatchAxes("batch", broadcast_shape),
                                    y0 |-> BatchAxes("batch", broadcast_shape)]
                    /\ b_pc' = "broadcast"
       ELSE /\ b_arrays' = [H  |-> BatchAxes("H", b_in.H),
                            y0 |-> BatchAxes("y0", b_in.y0)]
            /\ b_pc' = "broadcast"
    /\ UNCHANGED <<b_api, b_in, b_wrappers, b_out, notBatch>>

\* a choice of vectorizer with the two policies exchanged
DsmeVectorize_Swapped ==
    /\ b_api = "dsmesolve" /\ b_pc = "broadcast"
    /\ b_wrappers' = Append(b_wrappers,
                            IF b_in.cartesian THEN "flat" ELSE "cartesian")
    /\ b_pc' = "vectorized"
    /\ UNCHANGED <<b_api, b_in, b_arrays, b_out, notBatch>>

\* lines 235-253: n_batch and the choice of the vectorizer, composed around f
DsmeVectorize ==
    /\ b_api = "dsmesolve" /\ b_pc = "broadcast"
    /\ b_wrappers' = Append(b_wrappers,
                            IF b_in.cartesian THEN "cartesian" ELSE "flat")
    /\ b_pc' = "vectorized"
    /\ UNCHANGED <<b_api, b_in, b_arrays, b_out, notBatch>>

\* the output axes a vectorization puts in front of those of the function it
\* wraps: keys, out_axes 0 (line 215); cartesian, one group of axes per
\* batched argument; flat, the axes shared by the batched arguments
WrapAxes(w, axes) ==
    CASE w = "keys" -> <<Ax("key", b_in.nkeys)>> \o axes
      [] w = "cartesian" -> b_arrays.H \o b_arrays.y0 \o axes
      [] w = "flat" -> b_arrays.H \o axes

\* a composition applied outermost first
RECURSIVE ApplyWrappers_Reversed(_, _)
ApplyWrappers_Reversed(ws, axes) ==
    IF ws = <<>> THEN axes
    ELSE WrapAxes(Head(ws), ApplyWrappers_Reversed(Tail(ws), axes))

\* the axes of the output of the composed function, ws innermost first
RECURSIVE ApplyWrappers(_, _)
ApplyWrappers(ws, axes) ==
    IF ws = <<>> THEN axes
    ELSE ApplyWrappers(Tail(ws), WrapAxes(Head(ws), axes))

\* lines 255-268: the vectorized function is applied
DsmeApply ==
    /\ b_api = "dsmesolve" /\ b_pc = "vectorized"
    /\ b_out' =
          [y_save |-> ApplyWrappers(b_wrappers,
                          <<Ax("t", b_in.ntsave)>> \o StateAxes(b_in)),
           exp_save |-> IF b_in.nE > 0
                        THEN ApplyWrappers(b_wrappers,
                                 <<Ax("E", b_in.nE), Ax("t", b_in.ntsave)>>)
                        ELSE NoArray]
    /\ b_pc' = "returned"
    /\ UNCHANGED <<b_api, b_in, b_arrays, b_wrappers, notBatch>>

VectorizeInit ==
    /\ BatchCall("dsmesolve", DsmeBatchArgs)
    /\ FixedIdle
    /\ RunIdle
    /\ ExpmIdle
    /\ ApiIdle
    /\ DsmeIdle
    /\ ObjIdle

VectorizeNext == DsmeVmapKeys \/ DsmeBroadcast \/ DsmeVectorize \/ DsmeApply

SpecVectorize == VectorizeInit /\ [][VectorizeNext]_vars

-----------------------------------------------------------------------------
(* One trajectory of the diffusive SME:                                    *)
(*   dynamiqs/integrators/apis/dsmesolve.py : dsmesolve,                   *)
(*   _dsmesolve_single_trajectory;                                         *)
(*   dynamiqs/integrators/core/diffrax_integrator.py :                     *)
(*   DSMEDiffraxIntegrator.                                                *)
(* A jump operator is its position in the caller's list; an efficiency is  *)
(* a number of halves (EtaOne is eta = 1).  The solve advances by one time *)
(* unit per step; the increment of the k-th signal over a step, drift and  *)
(* Wiener increment together, is any of 0 and k.                           *)

\* the positions of zip(jump_ops, etas)
Zip(jump_ops, etas) == 1..Min({Len(jump_ops), Len(etas)})

\* [L for i, L in enumerate(jump_ops) if i in kept], in list order
ListOf(jump_ops, kept) ==
    LET idx == SortedSeq(kept)
    IN [k \in DOMAIN idx |-> jump_ops[idx[k]]]

\* dsmesolve line 172
dissipative_ops(jump_ops, etas) ==
    ListOf(jump_ops, {i \in Zip(jump_ops, etas) : etas[i] = 0})

\* a split that keeps the perfectly measured operators only
measured_ops_OnlyPerfect(jump_ops, etas) ==
    ListOf(jump_ops, {i \in Zip(jump_ops, etas) : etas[i] = EtaOne})

\* dsmesolve line 173
measured_ops(jump_ops, etas) ==
    ListOf(jump_ops, {i \in Zip(jump_ops, etas) : etas[i] # 0})

\* the arguments that pass _check_dsmesolve_args and check_times
DsmeArgs ==
    UNION {{[jump_ops |-> [i \in 1..n |-> i], etas |-> e, tsave |-> tv] :
               e \in {x \in [1..n -> 0..EtaOne] : \E i \in 1..n : x[i] # 0},
               tv \in IncreasingSeqs(0, MaxTE)} : n \in 1..MaxOps}

DsmeCall ==
    /\ d_args \in DsmeArgs
    /\ d_int = 0 /\ d_terms = 0 /\ d_y = 0 /\ d_hist = <<>> /\ d_ys = <<>>
    /\ d_out = 0 /\ d_pc = "called"

\* dsmesolve lines 170-174
DsmeSplit ==
    /\ d_pc = "called"
    /\ d_int' = [Lcs  |-> dissipative_ops(d_args.jump_ops, d_args.etas),
                 Lms  |-> measured_ops(d_args.jump_ops, d_args.etas),
                 etas |-> SelectSeq(d_args.etas, IsNonZero),
                 ts   |-> d_args.tsave]
    /\ d_pc' = "split"
    /\ UNCHANGED <<d_args, d_terms, d_y, d_hist, d_ys, d_out, notDsme>>

\* self.Ls of the integrator: the operators of the dissipator of the equation
\* dsmesolve documents, the sum over all the jump operators
Ls(I) == I.Lcs \o I.Lms

\* terms, Ccal: one (L, eta) per measured operator, etas[:, None, None]
\* broadcast against the stacked Lms
Ccal(I) ==
    IF Len(I.etas) = Len(I.Lms)
    THEN [k \in DOMAIN I.Lms |-> [L |-> I.Lms[k], eta |-> I.etas[k]]]
    ELSE IF Len(I.etas) = 1
    THEN [k \in DOMAIN I.Lms |-> [L |-> I.Lms[k], eta |-> I.etas[1]]]
    ELSE <<>>

\* a drift whose dissipator runs over the purely dissipative operators only
vector_field_deterministic_OnlyLcs(I) ==
    [dissipator |-> I.Lcs, signal |-> Ccal(I)]

\* terms, vector_field_deterministic: (Lcal(rho), Tr[Ccal(rho)])
vector_field_deterministic(I) == [dissipator |-> Ls(I), signal |-> Ccal(I)]

\* terms, vector_field_stochastic: (Ccal(rho) - Tr[Ccal(rho)] rho, 1)
vector_field_stochastic(I) == Ccal(I)

\* wiener: the shape of the Brownian motion
wiener(I) == Len(I.etas)

\* the times the signal is saved at
tmeas(I) == I.ts

\* the initial state of the solve, the signal starting from zero
DsmeY0(I) == [t |-> I.ts[1], Y |-> [k \in DOMAIN I.Lms |-> 0]]

\* SolveSaveMixin.save of the state rho reached at time t
save(yy) == [ysave |-> yy.t, Esave |-> yy.t]

\* dx.SubSaveAt(ts = times, fn): fn(y) is saved when the solve is at a time
\* of times
SubSaveAt(saved, times, at, v) ==
    IF at \in Range(times) THEN Append(saved, v) ELSE saved

\* a saveat whose third sub-tree skips the first time of tmeas
saveat_SkipFirst(I, ys, yy) ==
    <<SubSaveAt(ys[1], I.ts, yy.t, save(yy)),
      yy,
      SubSaveAt(ys[3], Tail(tmeas(I)), yy.t, yy.Y)>>

\* DiffraxIntegrator.saveat and DSMEDiffraxIntegrator.saveat: the sub-trees
\* of solution.ys once the solve is at yy
saveat(I, ys, yy) ==
    <<SubSaveAt(ys[1], I.ts, yy.t, save(yy)),
      yy,
      SubSaveAt(ys[3], tmeas(I), yy.t, yy.Y)>>

\* _dsmesolve_single_trajectory lines 291-304: the integrator and its terms
DsmeConstruct ==
    /\ d_pc = "split"
    /\ d_terms' = [deterministic |-> vector_field_deterministic(d_int),
                   stochastic    |-> vector_field_stochastic(d_int),
                   wiener        |-> wiener(d_int)]
    /\ d_y' = DsmeY0(d_int)
    /\ d_hist' = <<DsmeY0(d_int)>>
    /\ d_ys' = saveat(d_int, <<<<>>, 0, <<>>>>, DsmeY0(d_int))
    /\ d_pc' = "solving"
    /\ UNCHANGED <<d_args, d_int, d_out, notDsme>>

\* one step of dx.diffeqsolve on the terms
DsmeStep ==
    /\ d_pc = "solving"
    /\ d_y.t < Last(d_int.ts)
    /\ \E b \in {0, 1} :
          LET dY == [k \in DOMAIN d_y.Y |-> b * k]
              yy == [t |-> d_y.t + 1,
                     Y |-> [k \in DOMAIN d_y.Y |-> d_y.Y[k] + dY[k]]]
          IN /\ d_y' = yy
             /\ d_hist' = Append(d_hist, yy)
             /\ d_ys' = saveat(d_int, d_ys, yy)
    /\ UNCHANGED <<d_args, d_int, d_terms, d_out, d_pc, notDsme>>

\* solution_to_saved
solution_to_saved(ys) ==
    [ysave |-> [i \in DOMAIN ys[1] |-> ys[1][i].ysave],
     Esave |-> [i \in DOMAIN ys[1] |-> ys[1][i].Esave],
     Ysave |-> ys[3]]

\* the time-averaged measurements of the saved signal, one record per
\* measured operator: (Y(t1) - Y(t0)) / (t1 - t0) as the pair (dY, dt)
Isave(I, Ysave) ==
    [k \in DOMAIN I.Lms |->
        [i \in 1..(Len(Ysave) - 1) |->
            [dY |-> Ysave[i + 1][k] - Ysave[i][k],
             dt |-> tmeas(I)[i + 1] - tmeas(I)[i]]]]

\* DiffraxIntegrator.run lines 89-91: the result of the trajectory
DsmeReturn ==
    /\ d_pc = "solving"
    /\ d_y.t = Last(d_int.ts)
    /\ LET saved == solution_to_saved(d_ys)
       IN d_out' = [states       |-> saved.ysave,
                    expects      |-> saved.Esave,
                    measurements |-> Isave(d_int, saved.Ysave)]
    /\ d_pc' = "returned"
    /\ UNCHANGED <<d_args, d_int, d_terms, d_y, d_hist, d_ys, notDsme>>

DsmeInit ==
    /\ DsmeCall
    /\ FixedIdle
    /\ RunIdle
    /\ ExpmIdle
    /\ ApiIdle
    /\ BatchIdle
    /\ ObjIdle

DsmeNext == DsmeSplit \/ DsmeConstruct \/ DsmeStep \/ DsmeReturn

SpecDsme == DsmeInit /\ [][DsmeNext]_vars

-----------------------------------------------------------------------------
(* The saving of expectation values:                                       *)
(*   dynamiqs/integrators/core/save_mixin.py : SolveSaveMixin,             *)
(*   dynamiqs/solvers/solver.py : Solver,                                  *)
(*   torchqdynamics/qsolver.py : QSolver.                                  *)
(* A tensor is [kind, shape, val], val indexed in the order of shape; the  *)
(* batch axes are left out.  The state handed to the k-th save is the      *)
(* solution at the k-th save time.                                         *)

\* bexpect(exp_ops, y) / expect(Es, y), component e, y the solution at the
\* k-th save time
Expect(e, k) == [E |-> e, at |-> k]

\* an entry of torch.zeros
ZeroEntry == [E |-> 0, at |-> 0]

None == [kind |-> "None", shape |-> <<>>, val |-> <<>>]

Tensor(shape, val) == [kind |-> "tensor", shape |-> shape, val |-> val]

\* torch.zeros(len(exp_ops), len(tsave))
ZerosExp(nE, n) ==
    Tensor(<<Ax("E", nE), Ax("t", n)>>,
           [e \in 1..nE |-> [k \in 1..n |-> ZeroEntry]])

\* x.swapaxes(-1, -2) of a matrix
swapaxes(x) ==
    Tensor(<<x.shape[2], x.shape[1]>>,
           [i \in 1..x.shape[2].n |-> [j \in 1..x.shape[1].n |-> x.val[j][i]]])

SaveArgs ==
    [nE : 0..MaxOps, ntsave : 1..MaxLen, save_states : BOOLEAN,
     first_is_zero : BOOLEAN]

SaveCall(kind) ==
    /\ o_kind = kind
    /\ o_in \in SaveArgs
    /\ o_self = 0 /\ o_hist = <<>> /\ o_out = 0 /\ o_pc = "new"

\* exp_save[..., counter] = bexpect(exp_ops, y), y the solution at the
\* k-th save time
WriteColumn(exp_save, counter, k) ==
    [exp_save EXCEPT !.val =
        [e \in DOMAIN @ |-> [@[e] EXCEPT ![counter + 1] = Expect(e, k)]]]

\* Solver._save_exp_ops (lines 103-105)
_save_exp_ops(nE, exp_save, counter, k) ==
    IF nE > 0 THEN WriteColumn(exp_save, counter, k) ELSE exp_save

\* Solver.__init__ lines 55-70 with _init_save
SolverNew ==
    /\ o_kind = "Solver" /\ o_pc = "new"
    /\ LET exp_save == IF o_in.nE > 0 THEN ZerosExp(o_in.nE, o_in.ntsave)
                       ELSE None
       IN IF o_in.first_is_zero
          THEN /\ o_self' = [exp_save |-> _save_exp_ops(o_in.nE, exp_save, 0, 1),
                             tsave_counter |-> 1]
               /\ o_hist' = IF o_in.nE > 0 THEN <<"bexpect">> ELSE <<>>
          ELSE /\ o_self' = [exp_save |-> exp_save, tsave_counter |-> 0]
               /\ o_hist' = <<>>
    /\ o_pc' = "running"
    /\ UNCHANGED <<o_kind, o_in, o_out, notObj>>

\* Solver.save (lines 91-94), called by the run loop with the solution at
\* the next time of tstop()
SolverSave ==
    /\ o_kind = "Solver" /\ o_pc = "running"
    /\ o_self.tsave_counter < o_in.ntsave
    /\ o_self' = [exp_save |-> _save_exp_ops(o_in.nE, o_self.exp_save,
                                              o_self.tsave_counter,
                                              o_self.tsave_counter + 1),
                  tsave_counter |-> o_self.tsave_counter + 1]
    /\ o_hist' = IF o_in.nE > 0 THEN Append(o_hist, "bexpect") ELSE o_hist
    /\ UNCHANGED <<o_kind, o_in, o_out, o_pc, notObj>>

\* Solver.run returns, mesolve reads solver.result
SolverResult ==
    /\ o_kind = "Solver" /\ o_pc = "running"
    /\ o_self.tsave_counter = o_in.ntsave
    /\ o_out' = o_self.exp_save
    /\ o_pc' = "returned"
    /\ UNCHANGED <<o_kind, o_in, o_self, o_hist, notObj>>

\* QSolver.__init__ lines 47-70
QSolverNew ==
    /\ o_kind = "QSolver" /\ o_pc = "new"
    /\ o_self' = [exp_save |-> IF o_in.nE > 0
                               THEN ZerosExp(o_in.nE, o_in.ntsave)
                               ELSE Tensor(<<Ax("E", o_in.nE)>>, <<>>),
                  save_counter |-> 0]
    /\ o_pc' = "running"
    /\ UNCHANGED <<o_kind, o_in, o_hist, o_out, notObj>>

\* QSolver.save (lines 79-86), called with the solution at next_tsave()
QSolverSave ==
    /\ o_kind = "QSolver" /\ o_pc = "running"
    /\ o_self.save_counter < o_in.ntsave
    /\ o_self' = [exp_save |-> _save_exp_ops(o_in.nE, o_self.exp_save,
                                              o_self.save_counter,
                                              o_self.save_counter + 1),
                  save_counter |-> o_self.save_counter + 1]
    /\ o_hist' = IF o_in.nE > 0 THEN Append(o_hist, "bexpect") ELSE o_hist
    /\ UNCHANGED <<o_kind, o_in, o_out, o_pc, notObj>>

\* the integration returns the save tensors of the QSolver
QSolverResult ==
    /\ o_kind = "QSolver" /\ o_pc = "running"
    /\ o_self.save_counter = o_in.ntsave
    /\ o_out' = o_self.exp_save
    /\ o_pc' = "returned"
    /\ UNCHANGED <<o_kind, o_in, o_self, o_hist, notObj>>

\* the integrator of a solve: self.Es is None when no observable is given
\* (dsmesolve lines 160-161)
MixinNew ==
    /\ o_kind = "SolveSaveMixin" /\ o_pc = "new"
    /\ o_self' = [Es |-> IF o_in.nE > 0 THEN o_in.nE ELSE 0, saved |-> <<>>]
    /\ o_pc' = "running"
    /\ UNCHANGED <<o_kind, o_in, o_hist, o_out, notObj>>

\* SolveSaveMixin.save (lines 39-42) of the solution at the next save time:
\* the Esave of one Saved
SolveSaveMixin_save(Es, k) ==
    IF Es # 0 THEN Tensor(<<Ax("E", Es)>>, [e \in 1..Es |-> Expect(e, k)])
    ELSE None

\* dx.SubSaveAt(ts=self.ts, fn=save): one Saved per save time
MixinSave ==
    /\ o_kind = "SolveSaveMixin" /\ o_pc = "running"
    /\ Len(o_self.saved) < o_in.ntsave
    /\ o_self' = [o_self EXCEPT !.saved =
                     Append(@, SolveSaveMixin_save(o_self.Es, Len(@) + 1))]
    /\ o_hist' = IF o_self.Es # 0 THEN Append(o_hist, "expect") ELSE o_hist
    /\ UNCHANGED <<o_kind, o_in, o_out, o_pc, notObj>>

\* the Saved of every save time stacked along a new leading axis; a None
\* leaf stays None
Stacked(saved) ==
    IF saved[1].kind = "None" THEN None
    ELSE Tensor(<<Ax("t", Len(saved))>> \o saved[1].shape,
                [k \in DOMAIN saved |-> saved[k].val])

\* a postprocess_saved that leaves Esave as stacked
SolveSaveMixin_postprocess_saved_NoSwap(Esave) == Esave

\* SolveSaveMixin.postprocess_saved (lines 44-49)
SolveSaveMixin_postprocess_saved(Esave) ==
    IF Esave.kind # "None" THEN swapaxes(Esave) ELSE Esave

\* DiffraxIntegrator.run lines 92-94
MixinResult ==
    /\ o_kind = "SolveSaveMixin" /\ o_pc = "running"
    /\ Len(o_self.saved) = o_in.ntsave
    /\ o_out' = SolveSaveMixin_postprocess_saved(Stacked(o_self.saved))
    /\ o_pc' = "returned"
    /\ UNCHANGED <<o_kind, o_in, o_self, o_hist, notObj>>

SaveInit ==
    /\ \/ SaveCall("Solver") \/ SaveCall("QSolver") \/ SaveCall("SolveSaveMixin")
    /\ FixedIdle
    /\ RunIdle
    /\ ExpmIdle
    /\ ApiIdle
    /\ BatchIdle
    /\ DsmeIdle

SaveNext ==
    \/ SolverNew \/ SolverSave \/ SolverResult
    \/ QSolverNew \/ QSolverSave \/ QSolverResult
    \/ MixinNew \/ MixinSave \/ MixinResult

SpecSave == SaveInit /\ [][SaveNext]_vars

-----------------------------------------------------------------------------
(* dynamiqs/mesolve/mesolve.py : mesolve, two calls in a row that are      *)
(* given the same options dict.  A dict is a function from its keys; every *)
(* call builds its own options object, time-dependent tensor and solver    *)
(* (with its save counter), so the dict is all the two calls share.        *)

EmptyDict == [k \in {} |-> "none"]

\* d[k] = v
DictSet(d, k, v) ==
    [x \in (DOMAIN d) \cup {k} |-> IF x = k THEN v ELSE d[x]]

\* d.setdefault(k, v)
DictSetDefault(d, k, v) == IF k \in DOMAIN d THEN d ELSE DictSet(d, k, v)

\* d.get(k, default)
DictGet(d, k, default) == IF k \in DOMAIN d THEN d[k] ELSE default

OptionDicts ==
    {EmptyDict,
     [k \in {"save_states"} |-> "False"],
     [k \in {"gradient_alg"} |-> "adjoint"],
     [k \in {"gradient_alg", "save_states"} |->
         IF k = "gradient_alg" THEN "autograd" ELSE "False"]}

\* the options argument: None, or a dict of the caller
CallerOptions ==
    {[isNone |-> TRUE, dict |-> EmptyDict]}
    \cup {[isNone |-> FALSE, dict |-> d] : d \in OptionDicts}

MesolveCalls ==
    [solver : {"dopri5", "euler", "rk4"},
     gradient : {"None", "autograd", "adjoint"},
     jump_ops : 0..1]

\* a mesolve that keeps a gradient_alg already in the dict
mesolve_options_KeepExisting(d, gradient) ==
    DictSetDefault(d, "gradient_alg", gradient)

\* mesolve lines 141-144: the dict mesolve works on, once gradient is stored
mesolve_options(d, gradient) == DictSet(d, "gradient_alg", gradient)

\* Dopri5(**options), Euler(**options), ...: the options object
OptionsObject(d) ==
    [gradient_alg |-> d["gradient_alg"],
     save_states  |-> DictGet(d, "save_states", "True")]

NoOptions == [gradient_alg |-> "unset", save_states |-> "unset"]

\* mesolve lines 141-209 on the dict d: the dict afterwards and the outcome
MesolveOutcome(c, d) ==
    LET options == mesolve_options(d, c.gradient)
        err == mesolve_checks([DefaultArgs EXCEPT
                                  !.solver = c.solver,
                                  !.jump_ops = [islist |-> TRUE,
                                                n |-> c.jump_ops]])
    IN [dict   |-> options,
        error  |-> err,
        result |-> IF err = "none"
                   THEN [options |-> OptionsObject(options),
                         SOLVER_CLASS |-> c.solver]
                   ELSE [options |-> NoOptions, SOLVER_CLASS |-> "none"]]

TwoCallsInit ==
    /\ o_kind = "mesolve"
    /\ o_in \in [options : CallerOptions, calls : [1..2 -> MesolveCalls]]
    /\ o_self = [dict |-> o_in.options.dict]
    /\ o_hist = <<>> /\ o_out = 0 /\ o_pc = "new"
    /\ FixedIdle
    /\ RunIdle
    /\ ExpmIdle
    /\ ApiIdle
    /\ BatchIdle
    /\ DsmeIdle

\* one call of mesolve; `options = {}` gives a None caller a dict of the call
MesolveOnDict ==
    /\ o_kind = "mesolve" /\ o_pc \in {"new", "once"}
    /\ LET c == o_in.calls[Len(o_hist) + 1]
           r == MesolveOutcome(c, IF o_in.options.isNone THEN EmptyDict
                                  ELSE o_self.dict)
       IN /\ o_self' = [dict |-> IF o_in.options.isNone THEN o_self.dict
                                 ELSE r.dict]
          /\ o_hist' = Append(o_hist, [error |-> r.error, result |-> r.result])
          /\ o_out' = r.result
    /\ o_pc' = IF o_pc = "new" THEN "once" ELSE "twice"
    /\ UNCHANGED <<o_kind, o_in, notObj>>

TwoCallsNext == MesolveOnDict

SpecTwoCalls == TwoCallsInit /\ [][TwoCallsNext]_vars

-----------------------------------------------------------------------------
(* The Lindblad vector field:                                              *)
(*   dynamiqs/integrators/core/diffrax_integrator.py :                     *)
(*   MEDiffraxIntegrator.terms (vector_field),                             *)
(*   torchqdynamics/utils/utils.py : dissipator, lindbladian.              *)
(* Operators are 2 x 2 complex matrices.  A complex number is the pair     *)
(* <<re, im>> counted in halves, so that 0.5 * x is exact; the entries of  *)
(* H, of the jump operators and of rho are Gaussian integers.              *)

\* the complex number re + i im
Cx(re, im) == <<2 * re, 2 * im>>

CAdd(a, b) == <<a[1] + b[1], a[2] + b[2]>>

CSub(a, b) == <<a[1] - b[1], a[2] - b[2]>>

\* a * b of two numbers counted in halves
CMul(a, b) ==
    <<(a[1] * b[1] - a[2] * b[2]) \div 2, (a[1] * b[2] + a[2] * b[1]) \div 2>>

CConj(a) == <<a[1], -a[2]>>

Dim == 1..2

\* X + Y
MAdd(X, Y) == [i \in Dim |-> [j \in Dim |-> CAdd(X[i][j], Y[i][j])]]

\* X - Y
MSub(X, Y) == [i \in Dim |-> [j \in Dim |-> CSub(X[i][j], Y[i][j])]]

\* X @ Y
matmul(X, Y) ==
    [i \in Dim |-> [j \in Dim |->
        CAdd(CMul(X[i][1], Y[1][j]), CMul(X[i][2], Y[2][j]))]]

\* dag(X), X.adjoint(): the conjugate transpose
dag(X) == [i \in Dim |-> [j \in Dim |-> CConj(X[j][i])]]

\* 0.5 * X
half(X) == [i \in Dim |-> [j \in Dim |-> <<X[i][j][1] \div 2, X[i][j][2] \div 2>>]]

\* -1j * X
minus_1j(X) == [i \in Dim |-> [j \in Dim |-> <<X[i][j][2], -X[i][j][1]>>]]

ZeroMatrix == [i \in Dim |-> [j \in Dim |-> Cx(0, 0)]]

\* xs.sum(0) of a stack of matrices
RECURSIVE sum0(_)
sum0(xs) == IF xs = <<>> THEN ZeroMatrix ELSE MAdd(Head(xs), sum0(Tail(xs)))

\* a vector field that leaves the Hermitian conjugate out
vector_field_NoHc(HH, LLs, rho) ==
    LET Lsd == [k \in DOMAIN LLs |-> dag(LLs[k])]
        LdL == sum0([k \in DOMAIN LLs |-> matmul(Lsd[k], LLs[k])])
        tmp == MAdd(matmul(MSub(minus_1j(HH), half(LdL)), rho),
                    half(sum0([k \in DOMAIN LLs |->
                                  matmul(matmul(LLs[k], rho), Lsd[k])])))
    IN MAdd(tmp, tmp)

\* MEDiffraxIntegrator.terms, vector_field (lines 230-235)
vector_field(HH, LLs, rho) ==
    LET Lsd == [k \in DOMAIN LLs |-> dag(LLs[k])]
        LdL == sum0([k \in DOMAIN LLs |-> matmul(Lsd[k], LLs[k])])
        tmp == MAdd(matmul(MSub(minus_1j(HH), half(LdL)), rho),
                    half(sum0([k \in DOMAIN LLs |->
                                  matmul(matmul(LLs[k], rho), Lsd[k])])))
    IN MAdd(tmp, dag(tmp))

\* utils.dissipator (lines 163-167); 0.5 * A @ B @ C is ((0.5 * A) @ B) @ C
dissipator(L, rho) ==
    MSub(MSub(matmul(matmul(L, rho), dag(L)),
              matmul(matmul(half(dag(L)), L), rho)),
         matmul(matmul(half(rho), dag(L)), L))

\* utils.lindbladian (line 195)
lindbladian(HH, LLs, rho) ==
    MAdd(minus_1j(MSub(matmul(HH, rho), matmul(rho, HH))),
         sum0([k \in DOMAIN LLs |-> dissipator(LLs[k], rho)]))

IsHermitian(X) == dag(X) = X

Matrix(a, b, c, d) == <<<<a, b>>, <<c, d>>>>

\* the Hamiltonians: Hermitian
Hamiltonians ==
    {Matrix(Cx(a, 0), b, CConj(b), Cx(0, 0)) :
        a \in {0, 1}, b \in {Cx(0, 0), Cx(1, 0), Cx(0, 1)}}

\* the states the field is applied to, Hermitian or not
States ==
    {Matrix(Cx(a, 0), b, c, Cx(1 - a, 0)) :
        a \in {0, 1},
        b \in {Cx(0, 0), Cx(1, 0), Cx(0, 1), Cx(0, -1)},
        c \in {Cx(0, 0), Cx(1, 0), Cx(0, 1), Cx(0, -1)}}

\* the jump operators: arbitrary operators
JumpOperators ==
    {Matrix(a, b, c, Cx(0, 0)) :
        a \in {Cx(0, 0), Cx(1, 0)},
        b \in {Cx(0, 0), Cx(1, 0), Cx(0, 1)},
        c \in {Cx(0, 0), Cx(0, 1)}}

\* the jump operators that follow the first one of a list
MoreJumpOperators ==
    {Matrix(Cx(0, 0), Cx(1, 0), Cx(0, 0), Cx(0, 0)),
     Matrix(Cx(1, 0), Cx(0, 0), Cx(0, 1), Cx(1, 0))}

\* the non-empty lists of at most MaxOps jump operators
JumpLists ==
    {<<L>> \o tl : L \in JumpOperators,
                   tl \in UNION {[1..n -> MoreJumpOperators] : n \in 0..(MaxOps - 1)}}

FieldInit ==
    /\ o_kind = "vector_field"
    /\ o_in \in [H : Hamiltonians, Ls : JumpLists, rho : States]
    /\ o_self = 0 /\ o_hist = <<>> /\ o_out = 0 /\ o_pc = "new"
    /\ FixedIdle
    /\ RunIdle
    /\ ExpmIdle
    /\ ApiIdle
    /\ BatchIdle
    /\ DsmeIdle

\* the field and the reference Lindbladian applied to the same state
FieldApply ==
    /\ o_kind = "vector_field" /\ o_pc = "new"
    /\ o_out' = [field       |-> vector_field(o_in.H, o_in.Ls, o_in.rho),
                 lindbladian |-> lindbladian(o_in.H, o_in.Ls, o_in.rho)]
    /\ o_pc' = "applied"
    /\ UNCHANGED <<o_kind, o_in, o_self, o_hist, notObj>>

FieldNext == FieldApply

SpecField == FieldInit /\ [][FieldNext]_vars

-----------------------------------------------------------------------------
(* Time-dependent operators (utils/td_tensor.py): ConstantTDTensor wraps a
   tensor, CallableTDTensor wraps a function of time, a shape and a
   one-entry cache of its evaluations.  o_self is the list of the instances
   alive; unsqueeze adds one.  A tensor is described by where its data comes
   from (<<>> for the wrapped tensor, <<t>> for f(t)) and its shape. *)

MaxInst == 4        \* most instances alive
MaxTime == 1        \* evaluation times are 0..MaxTime

\* @lru_cache(maxsize=1)
maxsize == 1

\* the shapes of the operators given by the caller
TDShapes == {<<2>>, <<2, 1>>}

TensorOf(at, shape) == [at |-> at, shape |-> shape]

NoTensor == TensorOf(<<>>, <<>>)

\* Tensor.unsqueeze(dim) on a shape: dim in [-(d + 1), d], a negative dim
\* counts from the end of the result
unsqueeze_accepts(shape, dm) == -(Len(shape) + 1) <= dm /\ dm <= Len(shape)

torch_unsqueeze(shape, dm) ==
    LET d == Len(shape)
        p == IF dm < 0 THEN dm + d + 1 ELSE dm
    IN  SubSeq(shape, 1, p) \o <<1>> \o SubSeq(shape, p + 1, d)

\* list.insert(index, x): x is put before position index; a negative index
\* counts from the end of the list as it is, and both ends are clamped
list_insert(l, index, x) ==
    LET d == Len(l)
        p == IF index < 0 THEN Max(0, d + index) ELSE Min({index, d})
    IN  SubSeq(l, 1, p) \o <<x>> \o SubSeq(l, p + 1, d)

\* the constructors; path is the list of the dims the instance was
\* unsqueezed at since the caller's operator
ConstantTDTensor(shape, path) ==
    [cls |-> "ConstantTDTensor", shape |-> shape, path |-> path, cache |-> <<>>]

CallableTDTensor(shape, path) ==
    [cls |-> "CallableTDTensor", shape |-> shape, path |-> path, cache |-> <<>>]

\* self._callable(t).view(self._shape)
CallableTDTensor_compute(self, tm) == TensorOf(<<tm>>, self.shape)

\* the cache of one instance: a hit is an entry stored under the same t
lru_cache_hits_AnyKey(cache, tm) == {k \in DOMAIN cache : TRUE}

lru_cache_hits(cache, tm) == {k \in DOMAIN cache : cache[k].key = tm}

\* a miss stores the new entry and drops the least recently used ones
lru_cache_store(cache, tm, val) ==
    LET c == Append(cache, [key |-> tm, val |-> val])
    IN  IF Len(c) > maxsize THEN SubSeq(c, Len(c) - maxsize + 1, Len(c)) ELSE c

\* __call__: the value returned and the instance afterwards
TDTensor_call(self, tm) ==
    IF self.cls = "ConstantTDTensor"
    THEN [val |-> TensorOf(<<>>, self.shape), self |-> self]
    ELSE LET hits == lru_cache_hits(self.cache, tm)
         IN  IF hits # {}
             THEN [val |-> self.cache[CHOOSE k \in hits : TRUE].val, self |-> self]
             ELSE LET v == CallableTDTensor_compute(self, tm)
                  IN  [val  |-> v,
                       self |-> [self EXCEPT !.cache = lru_cache_store(self.cache, tm, v)]]

\* size() over all dims and dim()
TDTensor_size(self) == self.shape

TDTensor_dim(self) == Len(self.shape)

\* unsqueeze(dim): the new instance
TDTensor_unsqueeze(self, dm) ==
    IF self.cls = "ConstantTDTensor"
    THEN ConstantTDTensor(torch_unsqueeze(self.shape, dm), Append(self.path, dm))
    ELSE CallableTDTensor(list_insert(self.shape, dm, 1), Append(self.path, dm))

\* the dims tried on an instance of rank d: the first and the last position
\* counted from the front (0, d), the last one counted from the end (-1),
\* and one that Tensor.unsqueeze rejects (-(d + 2))
DimsTried(self) ==
    {-(Len(self.shape) + 2), -1, 0, Len(self.shape)}

TDInit ==
    /\ o_kind = "TDTensor"
    /\ o_in \in TDShapes
    /\ o_self = <<ConstantTDTensor(o_in, <<>>), CallableTDTensor(o_in, <<>>)>>
    /\ o_hist = <<>>
    /\ o_out = [op |-> "none", inst |-> 0, t |-> 0, val |-> NoTensor]
    /\ o_pc = "ready"
    /\ FixedIdle
    /\ RunIdle
    /\ ExpmIdle
    /\ ApiIdle
    /\ BatchIdle
    /\ DsmeIdle

\* instance i is evaluated at time t
TDCall ==
    /\ o_kind = "TDTensor"
    /\ \E i \in DOMAIN o_self, tm \in 0..MaxTime :
          LET r == TDTensor_call(o_self[i], tm)
          IN  /\ o_self' = [o_self EXCEPT ![i] = r.self]
              /\ o_out' = [op |-> "call", inst |-> i, t |-> tm, val |-> r.val]
    /\ UNCHANGED <<o_kind, o_in, o_hist, o_pc, notObj>>

\* instance i is unsqueezed at dim: a new instance, or the IndexError of
\* Tensor.unsqueeze
TDUnsqueeze ==
    /\ o_kind = "TDTensor"
    /\ Len(o_self) < MaxInst
    /\ \E i \in DOMAIN o_self :
          \E dm \in DimsTried(o_self[i]) :
             IF /\ o_self[i].cls = "ConstantTDTensor"
                /\ ~unsqueeze_accepts(o_self[i].shape, dm)
             THEN /\ o_out' = [op |-> "IndexError", inst |-> i, t |-> 0,
                               val |-> NoTensor]
                  /\ UNCHANGED o_self
             ELSE /\ o_self' = Append(o_self, TDTensor_unsqueeze(o_self[i], dm))
                  /\ o_out' = [op |-> "unsqueeze", inst |-> i, t |-> 0,
                               val |-> NoTensor]
    /\ UNCHANGED <<o_kind, o_in, o_hist, o_pc, notObj>>

TDNext == TDCall \/ TDUnsqueeze

SpecTD == TDInit /\ [][TDNext]_vars

-----------------------------------------------------------------------------
(* The choice of the integration routine                                   *)
(*   dynamiqs/solvers/solver.py : Solver.run, _run of Solver,              *)
(*                                AutogradSolver and AdjointSolver         *)
(*   torchqdynamics/qsolver.py  : QSolver.__init__ (gradient_alg)          *)
(*   torchqdynamics/odeint.py   : odeint, odeint_main, odeint_inplace      *)
(* o_hist is the list of the integration routines executed, each with      *)
(* whether the autograd graph is recorded; the routines themselves are     *)
(* those of the concrete solver.                                           *)

\* the values of gradient_alg / sensitivity: None, the two known names and
\* any other string
GradientAlgs == {"None", "autograd", "adjoint", "other"}

SolverClasses == {"Solver", "AutogradSolver", "AdjointSolver"}

\* GRADIENT_ALG of QSolver and of its subclasses
GRADIENT_ALGS == SUBSET {"autograd", "adjoint"}

\* qsolver.options of odeint
StepOptions == {"FixedStep", "AdaptativeStep", "other"}

Routine(name, graph) == [routine |-> name, graph |-> graph]

\* AutogradSolver.run_nograd: run_autograd under torch.inference_mode();
\* for a direct subclass of Solver run_nograd is the routine itself
run_nograd(cls) ==
    IF cls = "Solver" THEN <<Routine("run_nograd", FALSE)>>
    ELSE <<Routine("run_autograd", FALSE)>>

\* Solver._run
Solver_run(cls, gradient_alg) ==
    IF gradient_alg = "None" THEN run_nograd(cls) ELSE <<>>

\* AutogradSolver._run
AutogradSolver_run(cls, gradient_alg) ==
    Solver_run(cls, gradient_alg)
        \o (IF gradient_alg = "autograd"
            THEN <<Routine("run_autograd", TRUE)>> ELSE <<>>)

\* AdjointSolver._run
AdjointSolver_run(cls, gradient_alg) ==
    AutogradSolver_run(cls, gradient_alg)
        \o (IF gradient_alg = "adjoint"
            THEN <<Routine("run_adjoint", TRUE)>> ELSE <<>>)

\* self._run() of an instance of cls
_run(cls, gradient_alg) ==
    CASE cls = "Solver"         -> Solver_run(cls, gradient_alg)
      [] cls = "AutogradSolver" -> AutogradSolver_run(cls, gradient_alg)
      [] cls = "AdjointSolver"  -> AdjointSolver_run(cls, gradient_alg)

\* QSolver.__init__ lines 41-45
QSolver_rejects(gradient_alg, GRADIENT_ALG) ==
    gradient_alg # "None" /\ gradient_alg \notin GRADIENT_ALG

\* odeint_main: the routines run and how the call ends
odeint_main(options, graph) ==
    CASE options = "FixedStep" ->
            [hist |-> <<Routine("_fixed_odeint", graph)>>, pc |-> "returned"]
      [] options = "AdaptativeStep" ->
            [hist |-> <<>>, pc |-> "NotImplementedError"]
      [] OTHER -> [hist |-> <<>>, pc |-> "returned"]

\* odeint lines 14-20
odeint(sensitivity, options) ==
    CASE sensitivity = "None"     -> odeint_main(options, FALSE)
      [] sensitivity = "autograd" -> odeint_main(options, TRUE)
      [] sensitivity = "adjoint"  -> [hist |-> <<>>, pc |-> "NotImplementedError"]
      [] OTHER -> [hist |-> <<>>, pc |-> "returned"]

DispatchInit ==
    /\ \/ /\ o_kind = "Solver.run"
          /\ o_in \in [cls : SolverClasses, gradient_alg : GradientAlgs,
                       ntsave : 1..MaxLen, first_is_zero : BOOLEAN]
       \/ /\ o_kind = "QSolver.__init__"
          /\ o_in \in [GRADIENT_ALG : GRADIENT_ALGS, gradient_alg : GradientAlgs]
       \/ /\ o_kind = "odeint"
          /\ o_in \in [sensitivity : GradientAlgs, options : StepOptions]
    /\ o_self = 0 /\ o_hist = <<>> /\ o_out = 0 /\ o_pc = "new"
    /\ FixedIdle
    /\ RunIdle
    /\ ExpmIdle
    /\ ApiIdle
    /\ BatchIdle
    /\ DsmeIdle

\* Solver.__init__: the result is allocated with zeros, and _init_save
\* saves y0 when tsave[0] == 0.0
DispatchConstruct ==
    /\ o_kind = "Solver.run" /\ o_pc = "new"
    /\ o_self' = [tsave_counter |-> IF o_in.first_is_zero THEN 1 ELSE 0]
    /\ o_pc' = "constructed"
    /\ UNCHANGED <<o_kind, o_in, o_hist, o_out, notObj>>

\* Solver.run: _run, then the call returns; a routine that ran has saved
\* at every time of tstop()
DispatchRun ==
    /\ o_kind = "Solver.run" /\ o_pc = "constructed"
    /\ o_hist' = _run(o_in.cls, o_in.gradient_alg)
    /\ o_self' = [tsave_counter |->
                     IF o_hist' = <<>> THEN o_self.tsave_counter
                     ELSE o_in.ntsave]
    /\ o_pc' = "returned"
    /\ UNCHANGED <<o_kind, o_in, o_out, notObj>>

\* QSolver.__init__
DispatchQSolver ==
    /\ o_kind = "QSolver.__init__" /\ o_pc = "new"
    /\ o_pc' = IF QSolver_rejects(o_in.gradient_alg, o_in.GRADIENT_ALG)
               THEN "ValueError" ELSE "constructed"
    /\ UNCHANGED <<o_kind, o_in, o_self, o_hist, o_out, notObj>>

\* odeint
DispatchOdeint ==
    /\ o_kind = "odeint" /\ o_pc = "new"
    /\ o_hist' = odeint(o_in.sensitivity, o_in.options).hist
    /\ o_pc' = odeint(o_in.sensitivity, o_in.options).pc
    /\ UNCHANGED <<o_kind, o_in, o_self, o_out, notObj>>

DispatchNext ==
    DispatchConstruct \/ DispatchRun \/ DispatchQSolver \/ DispatchOdeint

SpecDispatch == DispatchInit /\ [][DispatchNext]_vars

-----------------------------------------------------------------------------
(* Properties of the fixed-step loop *)

AllMultiplesOfDt == \A k \in 1..Len(tsave) : tsave[k] % dt0 = 0

\* C1 (as stated): when the loop has ended, every save index 0..len(tsave)-1
\* has been written exactly once, in increasing index order, for every dt > 0
\* (also a dt larger than the gap between two save times).
C1_EverySaveWrittenOnceInOrder ==
    pc = "done" => writes = [k \in 1..Len(tsave) |-> k - 1]

\* C2 (as stated): the output recorded for save time tsave[k] is the state at time
\* exactly tsave[k], wherever the step times k*dt fall.
C2_RecordedStateIsAtSaveTime ==
    \A k \in 1..Len(tsave) : ysave[k] # Zero => ysave[k].at = tsave[k]

\* C2 (amended): when every tsave[k] is an integer multiple of dt, the entry
\* stored for tsave[k] at the end of the loop is the state at exactly tsave[k],
\* produced by tsave[k]/dt updates; y0 is stored at index 0 exactly when
\* tsave[0] == 0; in every case a stored entry is the state at a step time
\* at or after its save time.
C2_ExactOnTheStepGrid ==
    /\ (pc = "done" /\ AllMultiplesOfDt) =>
          \A k \in 1..Len(tsave) :
              ysave[k] = [at |-> tsave[k], steps |-> tsave[k] \div dt0]
    /\ (ysave[1] = y0) <=> (tsave[1] = 0)
    /\ \A k \in 1..Len(tsave) :
          ysave[k] # Zero => ysave[k].at >= tsave[k]

C2_Witness ==
    /\ pc = "done"
    /\ AllMultiplesOfDt
    /\ dt0 = 2
    /\ tsave = <<0, 2, 4>>
    /\ ysave[3] = [at |-> 4, steps |-> 2]

\* C3 (as stated): every step advances the time by exactly dt except a last
\* step clipped to tsave[-1] - t; t never exceeds tsave[-1]; when the loop has
\* ended t == tsave[-1] and the save index equals len(tsave).
C3_StepsAndTermination ==
    /\ \A i \in 1..Len(steps) :
          \/ steps[i][2] = dt0
          \/ i = Len(steps) /\ steps[i][2] = Last(tsave) - steps[i][1]
    /\ t <= Last(tsave)
    /\ pc = "done" => (t = Last(tsave) /\ save_counter = Len(tsave))

-----------------------------------------------------------------------------
(* Properties of a run *)

\* the times of S inside (t0, t1]
InRun(S) == {d \in S : t0 < d /\ d <= t1}

\* C4: the final state exposed under save_states = False (postprocess_saved
\* fed with the state at t1, or Solver._save_y at the last save index) equals
\* the last element of the state trajectory of the same run under
\* save_states = True, for any number of save times, a single save time equal
\* to the start time included.
C4_FinalStateIsLastOfTrajectory ==
    run_pc = "returned" =>
        /\ final_state(FALSE, result.F) = final_state(TRUE, result.T)
        /\ final_state(FALSE, result.F).at = t1

C4_Witness ==
    /\ run_pc = "returned"
    /\ Len(ts) = 1
    /\ ts[1] = t0
    /\ final_state(FALSE, result.F) = [at |-> t0, steps |-> 0]
    /\ final_state(TRUE, result.T) = [at |-> t0, steps |-> 0]

\* C6 (as stated): an adaptive integrator never crosses a discontinuity time
\* or a save time without landing on it: every discontinuity time and every
\* save time inside (t0, t1] is the end point of some accepted step.
C6_StopsAtDiscontinuitiesAndSaveTimes ==
    engine = "adaptive" =>
        /\ crossed \cap (discontinuity_ts \cup Range(ts)) = {}
        /\ run_pc = "returned" =>
              InRun(discontinuity_ts \cup Range(ts)) \subseteq stops

\* C6 (amended): an adaptive integrator never crosses a discontinuity time of
\* the generator: every discontinuity time inside (t0, t1], and t1 itself, is
\* the end point of an accepted step.  Save times before t1 are not stop
\* points; the value saved for each is the solution at that save time, taken
\* from the dense output of the step that contains it.
C6_StopsAtDiscontinuities ==
    engine = "adaptive" =>
        /\ crossed \cap discontinuity_ts = {}
        /\ run_pc = "returned" =>
              /\ InRun(discontinuity_ts \cup {t1}) \subseteq stops
              /\ \A k \in 1..Len(ts) : result.T[k].at = ts[k]

C6_Witness ==
    /\ engine = "adaptive"
    /\ run_pc = "returned"
    /\ \E d \in discontinuity_ts : t0 < d /\ d < t1 /\ d \in stops
    /\ \E k \in 1..Len(ts) : ts[k] \in crossed

\* C7: a run that has not reached the final save time when the step count
\* reaches the configured maximum aborts: run never builds or returns a
\* Result for it; every Result returned has an entry for every save time.
C7_NoResultWhenMaxStepsReached ==
    engine \in {"adaptive", "fixed"} =>
        /\ run_pc = "raised" =>
              (~result.made /\ tprev < t1 /\ num_steps = max_steps)
        /\ (run_pc # "stepping" /\ tprev < t1) => run_pc = "raised"
        /\ result.made <=> run_pc = "returned"
        /\ result.made =>
              /\ Len(result.T) = Len(ts)
              /\ \A k \in 1..Len(ts) :
                    result.T[k] # Inf /\ result.T[k].at = ts[k]

C7_Witness ==
    /\ engine = "adaptive"
    /\ run_pc = "raised"
    /\ num_steps = max_steps
    /\ tprev < t1
    /\ \E k \in 1..Len(ts) : ysaveT[k] # Inf
    /\ ~result.made

-----------------------------------------------------------------------------
(* Properties of ExpmSolver and of the entry points *)

\* C5: for every save time ts[k] (at or after t0), run returns the ordered
\* product P_n @ ... @ P_1 of the exponential propagators of the constant
\* sub-intervals between t0 and ts[k], later ones on the left, also when save
\* times coincide with t0 or with discontinuity times and when discontinuity
\* times lie beyond ts[-1]; the final propagator is the one at ts[-1].
C5_PropagatorIsOrderedProduct ==
    expm_pc = "done" =>
        /\ \A k \in 1..Len(expm_ts) :
              expm_ts[k] >= expm_t0 =>
                  propagators[k] = TruePropagator(expm_t0, expm_ts[k])
        /\ final_prop = propagators[Len(expm_ts)]

\* The same, for the calls whose start time is not after the first save time.
ExpmExactFromFirstSaveTime ==
    (expm_pc = "done" /\ expm_t0 <= expm_ts[1]) =>
        \A k \in 1..Len(expm_ts) :
            propagators[k] = TruePropagator(expm_t0, expm_ts[k])

\* C8: every usage error is raised before any numerical work and without a
\* result: the ExpmSolver constructor raises TypeError exactly for a generator
\* that is not constant, piecewise constant or a sum of such, before any
\* matrix exponential is computed; an entry point that raises has constructed
\* and run nothing; dsmesolve and floquet construct and run the integrator only
\* after assert_supports_gradient has passed.
C8_UsageErrorsBeforeNumericalWork ==
    /\ expm_pc \in {"constructed", "done", "TypeError"} =>
          (expm_pc = "TypeError" <=> H \in UnsupportedGenerators)
    /\ expm_pc = "TypeError" =>
          expm_calls = 0 /\ propagators = <<>> /\ final_prop = <<>>
    /\ expm_calls > 0 => H \in SupportedGenerators
    /\ error # "none" =>
          Count("construct") = 0 /\ Count("run") = 0 /\ ~api_result
    /\ api \in {"dsmesolve", "floquet"} =>
          \A i \in DOMAIN trace :
              trace[i] \in {"construct", "run"} =>
                  /\ args.gradient_ok
                  /\ \E j \in 1..(i - 1) : trace[j] = "assert_supports_gradient"

C8_Witness ==
    /\ expm_pc = "TypeError"
    /\ H.kind = "summed"
    /\ \E j \in 1..Len(H.terms) : H.terms[j].kind = "constant"

\* the conditions on etas under which the call is to be rejected
EtasInvalid(a) ==
    \/ Len(a.etas) # a.jump_ops.n
    \/ \A i \in DOMAIN a.etas : a.etas[i] = 0
    \/ \E i \in DOMAIN a.etas : a.etas[i] < 0 \/ a.etas[i] > EtaOne

\* the arguments checked before etas are valid
EarlierArgsValid ==
    IF api = "dsmesolve" THEN args.shapes_ok
    ELSE /\ args.options # "None" /\ args.jump_ops.islist
         /\ args.exp_ops \in {"None", "list"} /\ args.tsave_ok

\* the other arguments are all valid
OtherArgsValid ==
    /\ EarlierArgsValid
    /\ IF api = "dsmesolve"
       THEN args.tsave_ok /\ args.solver = "EulerMaruyama" /\ args.gradient_ok
       ELSE args.options = "Euler"

MesolveViolations(a) ==
    (IF a.solver \notin SolverNames THEN {"ValueError"} ELSE {})
    \cup (IF ~a.jump_ops.islist THEN {"TypeError"} ELSE {})
    \cup (IF a.jump_ops.islist /\ a.jump_ops.n = 0 THEN {"ValueError"} ELSE {})
    \cup (IF a.exp_ops \notin {"None", "list"} THEN {"TypeError"} ELSE {})

MesolveOtherwiseValid ==
    /\ api \in {"mesolve", "legacy_mesolve"}
    /\ api_pc \in {"raised", "returned"}
    /\ args.jump_ops.islist /\ args.exp_ops \in {"None", "list"}
    /\ args.tsave_ok
    /\ api = "mesolve" => args.solver \in SolverNames
    /\ api = "legacy_mesolve" =>
          args.solver \in {"None", "Rouchon1", "Rouchon1_5", "Rouchon2"}

\* C11 as claimed: the Lindblad solver run with an empty jump_ops list
\* produces, at every save time, the density matrix of the Schrodinger
\* evolution: the call returns a result, from one run of the solver.
C11_EmptyJumpOpsGivesSchrodingerStates ==
    (MesolveOtherwiseValid /\ args.jump_ops.n = 0) =>
        error = "none" /\ api_result /\ Count("run") = 1

\* C11 as amended: mesolve rejects an empty jump_ops list with ValueError
\* before any solver is constructed, so it produces no density matrix; a
\* result is produced exactly for a non-empty list.
C11_EmptyJumpOpsRejected ==
    MesolveOtherwiseValid =>
        /\ args.jump_ops.n = 0 =>
              /\ error = "ValueError" /\ Last(trace) = "check"
              /\ Count("construct") = 0 /\ Count("run") = 0 /\ ~api_result
        /\ args.jump_ops.n > 0 => error = "none" /\ api_result

C11_Witness ==
    /\ MesolveOtherwiseValid
    /\ api = "legacy_mesolve"
    /\ args.jump_ops.n = 0
    /\ error = "ValueError"

\* floquet arguments for which the call is to be rejected
FloquetInvalid(a) ==
    \/ \E e \in DOMAIN a.T : a.span > a.T[e]
    \/ \E e \in DOMAIN a.T : a.H_0[e] # a.H_T[e]

\* C12: floquet rejects the call, before the integrator is built, exactly
\* when tsave[-1] - tsave[0] > T for some batch element (a window equal to T
\* is accepted) or when H(0) differs from H(T); otherwise the integrator is
\* built and run once, mapped over the batch elements.
C12_FloquetRejectsExactlyWhenInvalid ==
    (api = "floquet" /\ api_pc # "called" /\ args.tsave_ok /\ args.shapes_ok) =>
        /\ FloquetInvalid(args) <=>
              error = "RuntimeError" /\ Last(trace) = "check"
        /\ FloquetInvalid(args) =>
              Count("construct") = 0 /\ Count("run") = 0 /\ ~api_result
        /\ (~FloquetInvalid(args) /\ args.gradient_ok) => error = "none"
        /\ (~FloquetInvalid(args) /\ args.gradient_ok /\ api_pc = "returned") =>
              Count("construct") = 1 /\ Count("run") = 1 /\ api_result

C12_Witness ==
    /\ api = "floquet"
    /\ api_pc = "returned"
    /\ \E e \in DOMAIN args.T : args.span = args.T[e]
    /\ Len(args.T) > 1

\* a tsave that the save-time check is to accept
TsaveValid(x) ==
    /\ x.kind = "tensor" /\ x.ndim = 1 /\ Len(x.values) > 0
    /\ \A i, j \in DOMAIN x.values : i < j => x.values[i] < x.values[j]

\* C13: check_tsave raises ValueError exactly when tsave is empty, is not
\* one-dimensional or is not strictly increasing; every non-empty strictly
\* increasing 1-D tsave is accepted and returned unchanged; the check runs
\* before any step is taken.
C13_CheckTsave ==
    (pc \notin {"odeint", "idle", "loop", "done", "IndexError"}) =>
        /\ steps = <<>>
        /\ (tsave.kind = "tensor" /\ ~TsaveValid(tsave)) => pc = "ValueError"
        /\ TsaveValid(tsave) => pc = "checked"

\* the batch axes the caller gave, H first
CallerAxes(in) == BatchAxes("H", in.H) \o BatchAxes("y0", in.y0)

\* C14: Cartesian batching law: with k Hamiltonians and m initial states the
\* saved states have shape (k, m, ntsave, ...) and the expectation values
\* (k, m, nE, ntsave); an unbatched argument contributes no axis; and each
\* [i, j] slice is the unbatched run with H_i and y0_j.
C14_CartesianBatchingLaw ==
    (b_api \in {"mesolve", "legacy_mesolve"} /\ b_pc = "returned") =>
        /\ b_in.save_states =>
              b_out.y_save = CallerAxes(b_in) \o <<Ax("t", b_in.ntsave)>>
                             \o StateAxes(b_in)
        /\ b_in.nE > 0 =>
              b_out.exp_save = CallerAxes(b_in)
                               \o <<Ax("E", b_in.nE), Ax("t", b_in.ntsave)>>

\* the axes of an array with the given label
AxesOf(a, label) == SelectSeq(a, LAMBDA x : x.ax = label)

\* C15: result assembly strips only the leading singleton axes introduced
\* internally: a batch axis given by the caller is preserved, also when its
\* size is 1, and no time, observable or state axis is removed.
C15_OnlyInternalAxesStripped ==
    (b_api \in {"mesolve", "legacy_mesolve"} /\ b_pc = "returned") =>
        /\ \A label \in {"H", "y0"} :
              AxesOf(b_out.y_save, label) = AxesOf(b_arrays.y0, label)
        /\ \A label \in {"m", "n"} :
              AxesOf(b_out.y_save, label) = <<Ax(label, b_in.n)>>
        /\ b_in.save_states =>
              AxesOf(b_out.y_save, "t") = <<Ax("t", b_in.ntsave)>>
        /\ b_out.exp_save # NoArray =>
              /\ \A label \in {"H", "y0"} :
                    AxesOf(b_out.exp_save, label) = AxesOf(b_arrays.y0, label)
              /\ AxesOf(b_out.exp_save, "E") = <<Ax("E", b_in.nE)>>
              /\ AxesOf(b_out.exp_save, "t") = <<Ax("t", b_in.ntsave)>>

\* the sizes of the axes of an array that come before the key axis
PhysicalBatchShape(a) ==
    LET k == CHOOSE i \in 1..Len(a) : a[i].ax = "key"
    IN [i \in 1..(k - 1) |-> a[i].n]

\* the common shape of two batch shapes, aligned on the right
CommonShape(a, b) ==
    LET n == Max(Len(a), Len(b))
    IN [i \in 1..n |-> Max(PadLeft(a, n)[i], PadLeft(b, n)[i])]

\* C16: with cartesian_batching = False H and rho0 are broadcast to their
\* common batch shape and mapped elementwise, so the physical batch shape of
\* the output is that common shape; with cartesian_batching = True it is the
\* concatenation of the batch shapes of H and of rho0.
C16_OutputBatchShape ==
    (b_api = "dsmesolve" /\ b_pc = "returned") =>
        /\ ~b_in.cartesian =>
              /\ PhysicalBatchShape(b_out.y_save) = CommonShape(b_in.H, b_in.y0)
              /\ b_arrays.H = b_arrays.y0
        /\ b_in.cartesian =>
              /\ PhysicalBatchShape(b_out.y_save) = b_in.H \o b_in.y0
              /\ SubSeq(b_out.y_save, 1, Len(b_in.H)) = BatchAxes("H", b_in.H)

C16_Witness ==
    /\ b_api = "dsmesolve" /\ b_pc = "returned"
    /\ ~b_in.cartesian
    /\ Len(b_in.H) = 2 /\ Len(b_in.y0) = 1
    /\ b_in.H[2] = 1 /\ b_in.y0[1] > 1 /\ b_in.H[1] > 1

\* the key axis is mapped with flat semantics: one axis, one entry per key
KeyAxisFlat ==
    /\ AxesOf(b_out.y_save, "key") = <<Ax("key", b_in.nkeys)>>
    /\ Cardinality({i \in DOMAIN b_wrappers : b_wrappers[i] = "keys"}) = 1

\* C17 as claimed: the key axis is always mapped with flat semantics, whatever
\* cartesian_batching is, and the key vectorization is composed on the outside
\* of the vectorization over H and rho0.
C17_KeysFlatAndOutermost ==
    (b_api = "dsmesolve" /\ b_pc = "returned") =>
        /\ KeyAxisFlat
        /\ Last(b_wrappers) = "keys"
        /\ Head(b_out.y_save).ax = "key"

\* C17 as amended: the key axis is always mapped with flat semantics, whatever
\* cartesian_batching is, and the key vectorization is the innermost one: the
\* vectorization over H and rho0 is composed around it, so that the key axis
\* follows the physical batch axes in the output.
C17_KeysFlatAndInnermost ==
    (b_api = "dsmesolve" /\ b_pc = "returned") =>
        /\ KeyAxisFlat
        /\ Head(b_wrappers) = "keys" /\ Len(b_wrappers) = 2
        /\ b_out.y_save =
              (IF b_in.cartesian THEN b_arrays.H \o b_arrays.y0
               ELSE b_arrays.H)
              \o <<Ax("key", b_in.nkeys), Ax("t", b_in.ntsave)>>
              \o StateAxes(b_in)

C17_Witness ==
    /\ b_api = "dsmesolve" /\ b_pc = "returned"
    /\ b_in.cartesian
    /\ b_in.nkeys > 1
    /\ Len(b_in.H) > 0 /\ Len(b_in.y0) > 0

-----------------------------------------------------------------------------
(* Properties of a trajectory of the diffusive SME *)

\* the position of an operator in the caller's list
IndexIn(ops, L) == CHOOSE i \in DOMAIN ops : ops[i] = L

\* the integrated signal when the solve was at time at
YAt(at) == (CHOOSE h \in Range(d_hist) : h.t = at).Y

NumMeasured == Cardinality({i \in DOMAIN d_args.etas : d_args.etas[i] # 0})

KeepsOrder(sub, ops) ==
    \A i, j \in DOMAIN sub : i < j => IndexIn(ops, sub[i]) < IndexIn(ops, sub[j])

\* C19: every jump operator is in exactly one of the dissipative (eta = 0)
\* and measured (eta # 0) lists, both keep the order of jump_ops, the
\* filtered etas are aligned with the measured operators, and the Wiener
\* process has one component per measured operator.
C19_JumpOpsPartition ==
    d_pc \in {"solving", "returned"} =>
        LET ops == d_args.jump_ops
        IN /\ Range(d_int.Lcs) = {L \in Range(ops) : d_args.etas[IndexIn(ops, L)] = 0}
           /\ Range(d_int.Lms) = {L \in Range(ops) : d_args.etas[IndexIn(ops, L)] # 0}
           /\ Len(d_int.Lcs) + Len(d_int.Lms) = Len(ops)
           /\ KeepsOrder(d_int.Lcs, ops) /\ KeepsOrder(d_int.Lms, ops)
           /\ Len(d_int.etas) = Len(d_int.Lms)
           /\ \A k \in DOMAIN d_int.Lms :
                 d_int.etas[k] = d_args.etas[IndexIn(ops, d_int.Lms[k])]
           /\ d_terms.wiener = Len(d_int.Lms)
           /\ Len(d_y.Y) = d_terms.wiener

C19_Witness ==
    /\ d_pc = "solving"
    /\ Len(d_int.Lcs) > 0
    /\ Len(d_int.Lms) > 0
    /\ d_int.Lms[1] > d_int.Lcs[1]
    /\ d_int.etas[1] # EtaOne

\* C20 as claimed: the drift applies the Lindblad dissipator to the purely
\* dissipative jump operators only; the measured operators enter through the
\* diffusion term and the signal only.
C20_DriftOnlyDissipative ==
    d_pc \in {"solving", "returned"} =>
        /\ Range(d_terms.deterministic.dissipator) =
              {L \in Range(d_args.jump_ops) : d_args.etas[IndexIn(d_args.jump_ops, L)] = 0}
        /\ {c.L : c \in Range(d_terms.stochastic)} =
              {L \in Range(d_args.jump_ops) : d_args.etas[IndexIn(d_args.jump_ops, L)] # 0}

\* C20 as amended: the drift applies the Lindblad dissipator to every jump
\* operator, dissipative or measured; the measured operators (eta # 0), and
\* only they, also enter the diffusion term and the signal, each with its
\* own eta.
C20_DriftAllJumpOps ==
    d_pc \in {"solving", "returned"} =>
        /\ Range(d_terms.deterministic.dissipator) = Range(d_args.jump_ops)
        /\ Len(d_terms.deterministic.dissipator) = Len(d_args.jump_ops)
        /\ d_terms.deterministic.signal = d_terms.stochastic
        /\ {c.L : c \in Range(d_terms.stochastic)} =
              {L \in Range(d_args.jump_ops) : d_args.etas[IndexIn(d_args.jump_ops, L)] # 0}
        /\ \A c \in Range(d_terms.stochastic) : c.eta = d_args.etas[IndexIn(d_args.jump_ops, c.L)]

C20_Witness ==
    /\ d_pc = "solving"
    /\ Len(d_int.Lcs) > 0
    /\ Len(d_int.Lms) > 0
    /\ Len(d_terms.deterministic.dissipator) > Len(d_int.Lcs)

-----------------------------------------------------------------------------
(* Properties of the saving of expectation values *)

\* the expectation values of every observable at every save time, observable
\* axis first
ExpectedExpSave ==
    Tensor(<<Ax("E", o_in.nE), Ax("t", o_in.ntsave)>>,
           [e \in 1..o_in.nE |-> [k \in 1..o_in.ntsave |-> Expect(e, k)]])

\* C21: with observables, one expectation value is recorded per observable
\* and save time, save_states True or False, in an array of shape
\* (nE, ntsave); without observables the expectation output is None and
\* nothing is computed.
C21_ExpectationsSaved ==
    (o_kind \in {"Solver", "QSolver", "SolveSaveMixin"} /\ o_pc = "returned") =>
        IF o_in.nE > 0 THEN o_out = ExpectedExpSave
        ELSE o_out = None /\ o_hist = <<>>

-----------------------------------------------------------------------------
(* Properties of repeated calls *)

\* what a call gives when nothing was called before it
FreshOutcome(c) ==
    LET r == MesolveOutcome(c, o_in.options.dict)
    IN [error |-> r.error, result |-> r.result]

\* C22: the result of a call does not depend on what an earlier call left
\* behind: the second of two calls that share the options dict returns what
\* it returns when it is the first call, and two calls with identical
\* inputs return identical results.
C22_SecondCallAsFresh ==
    (o_kind = "mesolve" /\ o_pc = "twice") =>
        /\ o_hist[2] = FreshOutcome(o_in.calls[2])
        /\ o_in.calls[1] = o_in.calls[2] => o_hist[1] = o_hist[2]

C22_Witness ==
    /\ o_kind = "mesolve" /\ o_pc = "twice"
    /\ ~o_in.options.isNone
    /\ "gradient_alg" \in DOMAIN o_in.options.dict
    /\ o_in.calls[1].gradient # o_in.calls[2].gradient
    /\ o_hist[1].error = "none" /\ o_hist[2].error = "none"
    /\ o_hist[2].result.options.gradient_alg # o_in.options.dict["gradient_alg"]

\* C30: mesolve leaves the options dict it is given unchanged: after a call,
\* successful or rejected, the dict has the keys and the values it had
\* before.
C30_OptionsDictUnchanged ==
    (o_kind = "mesolve" /\ o_pc \in {"once", "twice"}) =>
        o_self.dict = o_in.options.dict

-----------------------------------------------------------------------------
(* Properties of the Lindblad vector field *)

\* C23: tmp + dag(tmp) equals the reference Lindbladian for every Hermitian
\* rho, Hermitian H and list of jump operators, and is Hermitian for every
\* rho, Hermitian or not.
C23_ReducedFieldIsLindbladian ==
    (o_kind = "vector_field" /\ o_pc = "applied") =>
        /\ IsHermitian(o_in.rho) => o_out.field = o_out.lindbladian
        /\ IsHermitian(o_out.field)

C23_Witness ==
    /\ o_kind = "vector_field" /\ o_pc = "applied"
    /\ IsHermitian(o_in.rho)
    /\ Len(o_in.Ls) = 2
    /\ o_in.H[1][2] = Cx(0, 1)
    /\ o_out.field # ZeroMatrix
    /\ o_out.field[1][2][2] # 0

\* a state that is not Hermitian, where the field and the reference differ
FieldDiffersOffHermitian ==
    /\ o_kind = "vector_field" /\ o_pc = "applied"
    /\ ~IsHermitian(o_in.rho)
    /\ o_out.field # o_out.lindbladian
    /\ ~IsHermitian(o_out.lindbladian)


-----------------------------------------------------------------------------
(* Properties of the time-dependent operators *)

\* the constant and the callable instance i and j were derived from the
\* caller's operator by the same unsqueeze calls
SameDerivation(i, j) ==
    /\ o_self[i].cls = "ConstantTDTensor"
    /\ o_self[j].cls = "CallableTDTensor"
    /\ o_self[i].path = o_self[j].path

EvaluatedShape(self) == TDTensor_call(self, 0).val.shape

\* C24: a ConstantTDTensor and a CallableTDTensor of the same shape that
\* went through the same unsqueeze calls, each at a dim that Tensor.unsqueeze
\* accepts (negative dims included), have the same size(), the same dim() and
\* evaluate to tensors of the same shape; the instances they were derived
\* from keep the caller's shape.
C24_UnsqueezeAlike ==
    (o_kind = "TDTensor") =>
        /\ \A i, j \in DOMAIN o_self :
              SameDerivation(i, j) =>
                 /\ TDTensor_size(o_self[i]) = TDTensor_size(o_self[j])
                 /\ TDTensor_dim(o_self[i]) = TDTensor_dim(o_self[j])
                 /\ EvaluatedShape(o_self[i]) = EvaluatedShape(o_self[j])
        /\ \A i \in DOMAIN o_self :
              o_self[i].path = <<>> => /\ TDTensor_size(o_self[i]) = o_in
                                       /\ EvaluatedShape(o_self[i]) = o_in

\* C29: an evaluation of a CallableTDTensor at time t returns f(t) viewed
\* with the shape of the instance evaluated, and the cache of every instance
\* holds at most one entry, which is f at the time it is stored under, viewed
\* with the shape of that instance.
C29_CacheReturnsOwnValue ==
    (o_kind = "TDTensor") =>
        /\ (o_out.op = "call" /\ o_self[o_out.inst].cls = "CallableTDTensor") =>
              o_out.val = TensorOf(<<o_out.t>>, o_self[o_out.inst].shape)
        /\ \A i \in DOMAIN o_self :
              /\ Len(o_self[i].cache) <= maxsize
              /\ \A k \in DOMAIN o_self[i].cache :
                    o_self[i].cache[k].val =
                        TensorOf(<<o_self[i].cache[k].key>>, o_self[i].shape)

\* an unsqueezed callable instance has just been evaluated at a time other
\* than the one its cache held, while the instance it was derived from holds
\* the value of another time with another shape
C29_Witness ==
    /\ o_kind = "TDTensor" /\ o_out.op = "call"
    /\ LET self == o_self[o_out.inst]
       IN  /\ self.cls = "CallableTDTensor" /\ self.path # <<>>
           /\ self.cache # <<>> /\ self.cache[1].key = o_out.t
           /\ \E j \in DOMAIN o_self :
                 /\ o_self[j].cls = "CallableTDTensor"
                 /\ o_self[j].path = <<>> /\ o_self[j].cache # <<>>
                 /\ o_self[j].cache[1].key # o_out.t
                 /\ o_self[j].shape # self.shape

-----------------------------------------------------------------------------
(* Properties of the save counter of Solver *)

\* the number of saves made at construction: one when tsave[0] == 0.0
SavedAtConstruction == IF ts[1] = 0 THEN 1 ELSE 0

\* C26: for a strictly increasing tsave with tsave[0] >= 0, once save has
\* been called for the first num_steps times of tstop(), the counter is the
\* number of saves made, index k below the counter holds the state at
\* tsave[k], written by the k-th save, the indices from the counter on are
\* untouched, the initial state sits at index 0 exactly when tsave[0] == 0,
\* tstop() is tsave without that 0, and the run ends with
\* tsave_counter == len(tsave).
C26_EveryIndexSavedOnce ==
    (engine = "solver") =>
        /\ tsave_counter = SavedAtConstruction + num_steps
        /\ tsave_counter <= Len(ts)
        /\ \A k \in 1..Len(ts) :
              IF k <= tsave_counter
              THEN /\ ysaveT[k].at = ts[k]
                   /\ ysaveT[k].steps = k - SavedAtConstruction
              ELSE ysaveT[k] = Zero
        /\ (ysaveT[1] = y0) <=> (ts[1] = 0)
        /\ tstop(ts) = SelectSeq(ts, LAMBDA x : ~(x = 0 /\ x = ts[1]))
        /\ (run_pc = "returned") => tsave_counter = Len(ts)

\* a run over several save times, the first of them 0, has returned
C26_Witness ==
    /\ engine = "solver" /\ run_pc = "returned"
    /\ Len(ts) > 1 /\ ts[1] = 0
    /\ num_steps = Len(ts) - 1

-----------------------------------------------------------------------------
(* Properties of ExpmSolver.run with a late start time *)

\* C28: for a constant, a piecewise-constant and a summed generator and any
\* start time t0, later than some save times or not, the sub-intervals run
\* computes are such that none has a negative duration, none straddles t0,
\* each one ending at or before t0 contributes the identity, and the
\* propagator returned for the save time ts[k] is the identity when
\* ts[k] <= t0 and the propagator from t0 to ts[k] when ts[k] > t0.
C28_StartTimeAfterSaveTimes ==
    expm_pc = "done" =>
        LET times == ExpmTimes
        IN  /\ \A i \in 1..(Len(times) - 1) :
                  /\ ExpmTDiffs(times)[i] >= 0
                  /\ ~(times[i] < expm_t0 /\ expm_t0 < times[i + 1])
                  /\ times[i + 1] <= expm_t0 => StepPropagators(times)[i] = eye
            /\ \A k \in 1..Len(expm_ts) :
                  propagators[k] = IF expm_ts[k] <= expm_t0 THEN eye
                                   ELSE TruePropagator(expm_t0, expm_ts[k])

-----------------------------------------------------------------------------
(* Properties of the save counter of the fixed-step loop *)

\* C27: in every state of _fixed_odeint, for a strictly increasing tsave and
\* dt > 0, the save counter lies in 0..len(tsave), it is below len(tsave)
\* whenever another iteration is due, so that tsave[save_counter] is read and
\* ysave[save_counter] written inside tsave, and no index written reaches
\* len(tsave).
C27_SaveCounterInBounds ==
    /\ pc # "IndexError"
    /\ 0 <= save_counter /\ save_counter <= Len(tsave)
    /\ (pc = "loop" /\ t < Last(tsave)) => save_counter < Len(tsave)
    /\ \A k \in DOMAIN writes : 0 <= writes[k] /\ writes[k] < Len(tsave)

\* the loop has run to the end and the counter has reached len(tsave), the
\* last step being a clipped one
C27_Witness ==
    /\ pc = "done"
    /\ Len(tsave) > 1 /\ save_counter = Len(tsave)
    /\ Len(steps) > 1 /\ dt < dt0

-----------------------------------------------------------------------------
(* Properties of the choice of the integration routine *)

\* the routine that gradient_alg selects
RoutineFor(cls, gradient_alg) ==
    CASE gradient_alg = "None"     -> run_nograd(cls)
      [] gradient_alg = "autograd" -> <<Routine("run_autograd", TRUE)>>
      [] gradient_alg = "adjoint"  -> <<Routine("run_adjoint", TRUE)>>
      [] OTHER -> <<>>

\* C25: for each of Solver, AutogradSolver and AdjointSolver and every value
\* of gradient_alg, a run() that returns has executed exactly one integration
\* routine, once, the one that gradient_alg selects (None: run_nograd, that
\* is run_autograd without a graph; 'autograd': run_autograd; 'adjoint':
\* run_adjoint), so that the result is never left as allocated; and the
\* constructor of QSolver raises ValueError exactly for a gradient_alg other
\* than None that is not in GRADIENT_ALG.
C25_RunIntegratesOnceOrRaises ==
    /\ (o_kind = "Solver.run" /\ o_pc = "returned") =>
          /\ Len(o_hist) = 1
          /\ o_hist = RoutineFor(o_in.cls, o_in.gradient_alg)
          /\ o_self.tsave_counter = o_in.ntsave
    /\ (o_kind = "QSolver.__init__" /\ o_pc # "new") =>
          (o_pc = "ValueError" <=>
              (o_in.gradient_alg # "None"
                  /\ o_in.gradient_alg \notin o_in.GRADIENT_ALG))

\* The same for the classes that implement the routine asked for.
RunIntegratesWhenSupported ==
    (/\ o_kind = "Solver.run"
     /\ \/ o_in.gradient_alg = "None"
        \/ o_in.gradient_alg = "autograd" /\ o_in.cls # "Solver"
        \/ o_in.gradient_alg = "adjoint" /\ o_in.cls = "AdjointSolver")
        => C25_RunIntegratesOnceOrRaises

=============================================================================
